---------------------------- MODULE Spec2Model ----------------------------
(***************************************************************************)
(* pysen-ls: the diagnostics / quick-fix cache of one FileRuntime per open *)
(* document (pysen_ls/runtime.py), built from pysen findings               *)
(* (pysen_ls/diagnostic.py) and remapped in place on every text edit.      *)
(*                                                                         *)
(* Python objects are modelled by reference where the code shares them:    *)
(* every run of _convert_reports allocates one entry of the heap `objs`    *)
(* holding the Diagnostic and CodeAction objects it built.  The dicts      *)
(* _diagnostics and _code_actions hold references into that heap.  A       *)
(* CodeAction's related diagnostic is a pydantic copy of the Diagnostic    *)
(* that shares its Range object (pygls 0.10 / pydantic < 1.9 copy models   *)
(* shallowly on validation), so it is modelled as an index into the same   *)
(* run's diagnostics; the TextEdit's Range is a separate object.           *)
(***************************************************************************)
EXTENDS Integers, Sequences, FiniteSets, TLC

\* ------------------------------------------------------------------ bounds
\* findings one analysis run reports at most
MaxFindings == 2
\* handler calls (rerun / applyEdit) in one behaviour of the sequential specs
MaxOps == 3
\* reruns both rerun threads start in one behaviour of the threaded spec
MaxThreadRuns == 3
\* edits the edit thread starts in one behaviour of the threaded spec
MaxThreadEdits == 2

\* ------------------------------------------------------- optional values
None == <<>>
Some(v) == <<v>>

\* Python `x or d` for an Optional[int]: None and 0 are falsy
OrInt(x, d) == IF x = None THEN d ELSE IF x[1] = 0 THEN d ELSE x[1]

\* Python `x or d` for an Optional[str]: None and "" are falsy
OrStr(x, d) == IF x = None THEN d ELSE IF x[1] = "" THEN d ELSE x[1]

\* ------------------------------------------------------ positions, ranges
Position(l, c) == [line |-> l, character |-> c]
Range(s, e) == [start |-> s, end |-> e]

\* pygls Position ordering: by line, then by character
PosLT(a, b) == a.line < b.line \/ (a.line = b.line /\ a.character < b.character)
PosLE(a, b) == PosLT(a, b) \/ a = b

\* Python max(a, b): b only when b > a;  min(a, b): b only when b < a
PosMax(a, b) == IF PosLT(a, b) THEN b ELSE a
PosMin(a, b) == IF PosLT(b, a) THEN b ELSE a

has_overlap_wide(lhs, rhs) == PosLE(lhs.start, rhs.end)

has_overlap(lhs, rhs) == PosLE(PosMax(lhs.start, rhs.start), PosMin(lhs.end, rhs.end))

\* ------------------------------------------------------------------ text
\* A str is a sequence of one-character strings.
LineBreaks == {"\n", "\r"}

RECURSIVE SplitGo(_, _, _, _)
SplitGo(rest, cur, out, keepends) ==
    IF rest = <<>> THEN (IF cur = <<>> THEN out ELSE Append(out, cur))
    ELSE IF Head(rest) = "\r" /\ Len(rest) >= 2 /\ rest[2] = "\n"
         THEN SplitGo(SubSeq(rest, 3, Len(rest)), <<>>,
                      Append(out, IF keepends THEN cur \o <<"\r", "\n">> ELSE cur),
                      keepends)
    ELSE IF Head(rest) \in LineBreaks
         THEN SplitGo(Tail(rest), <<>>,
                      Append(out, IF keepends THEN Append(cur, Head(rest)) ELSE cur),
                      keepends)
    ELSE SplitGo(Tail(rest), Append(cur, Head(rest)), out, keepends)

\* str.splitlines(keepends): universal newlines, no trailing empty line
splitlines(s, keepends) == SplitGo(s, <<>>, <<>>, keepends)

RECURSIVE Concat(_)
Concat(ss) == IF ss = <<>> THEN <<>> ELSE Head(ss) \o Concat(Tail(ss))

startswith(line, ch) == line # <<>> /\ line[1] = ch

\* ------------------------------------------------------- diagnostic.py
\* variant: a "-" anywhere in the diff counts as a deletion
_has_deletion_anywhere(diff) == \E i \in DOMAIN diff : diff[i] = "-"

_has_deletion(diff) ==
    \E i \in DOMAIN splitlines(diff, FALSE) :
        /\ splitlines(diff, FALSE)[i] # <<>>
        /\ startswith(splitlines(diff, FALSE)[i], "-")

get_diagnostic_range(d) ==
    LET start_line   == OrInt(d.start_line, 1)
        start_column == OrInt(d.start_column, 1)
        end_line0    == OrInt(d.end_line, start_line)
        end_line     == IF d.diff # None /\ _has_deletion(d.diff[1])
                        THEN end_line0 + 1 ELSE end_line0
        end_column   == IF start_line # end_line THEN 1 ELSE start_column
    IN  Range(Position(start_line - 1, start_column - 1),
              Position(end_line - 1, end_column - 1))

\* variant: the line terminators are dropped from the new text
create_text_edit_no_terminators(d) ==
    LET lines == splitlines(d.diff[1], FALSE)
        kept  == [i \in DOMAIN lines |->
                    IF startswith(lines[i], "+") \/ startswith(lines[i], " ")
                    THEN Tail(lines[i]) ELSE <<>>]
    IN  [range |-> get_diagnostic_range(d), new_text |-> Concat(kept)]

\* the lines of the diff that start with "+" or " ", prefix stripped, joined;
\* the caller has checked diff is not None (the assert of line 48)
create_text_edit(d) ==
    LET lines == splitlines(d.diff[1], TRUE)
        kept  == [i \in DOMAIN lines |->
                    IF startswith(lines[i], "+") \/ startswith(lines[i], " ")
                    THEN Tail(lines[i]) ELSE <<>>]
    IN  [range |-> get_diagnostic_range(d), new_text |-> Concat(kept)]

create_diagnostic(d, default_message, code, source) ==
    [range    |-> get_diagnostic_range(d),
     message  |-> OrStr(d.message, default_message),
     severity |-> "Error",
     code     |-> code,
     source   |-> source]

\* variant: the edit is not bound to the document version
create_code_action_unversioned(title, document_uri, document_version, d, reference_diagnostics) ==
    IF d.diff = None THEN None
    ELSE Some([title       |-> title,
               kind        |-> "quickfix",
               diagnostics |-> reference_diagnostics,
               edit        |-> Some([uri      |-> document_uri,
                                     version  |-> None,
                                     range    |-> create_text_edit(d).range,
                                     new_text |-> create_text_edit(d).new_text])])

\* Optional[CodeAction]; reference_diagnostics are indexes of Diagnostic objects
create_code_action(title, document_uri, document_version, d, reference_diagnostics) ==
    IF d.diff = None THEN None
    ELSE Some([title       |-> title,
               kind        |-> "quickfix",
               diagnostics |-> reference_diagnostics,
               edit        |-> Some([uri      |-> document_uri,
                                     version  |-> document_version,
                                     range    |-> create_text_edit(d).range,
                                     new_text |-> create_text_edit(d).new_text])])

\* ------------------------------------------------------------ Python dict
\* A dict is the sequence of its items in insertion order.
DictKeys(d) == {d[i].key : i \in DOMAIN d}
DictHas(d, k) == k \in DictKeys(d)
DictGet(d, k) == d[CHOOSE i \in DOMAIN d : d[i].key = k].val
DictSet(d, k, v) ==
    IF DictHas(d, k)
    THEN [i \in DOMAIN d |-> IF d[i].key = k THEN [key |-> k, val |-> v] ELSE d[i]]
    ELSE Append(d, [key |-> k, val |-> v])

\* ---------------------------------------------------------------- state
\* One FileRuntime per target uri; the registry that creates them is not part
\* of this state (every target below has been created).
Targets == {"file:///a.py", "file:///b.py"}
Commands == {"lint", "format"}
ReporterNames == {"flake8"}
NoThread == "none"

VARIABLES
    objs,          \* heap: run id -> [diags, acts], the objects _convert_reports built
    lock,          \* Runtime._lock per target: NoThread or the holding thread
    version,       \* FileRuntime._version per target
    diagnostics,   \* Runtime._diagnostics per target: dict command -> run id
    code_actions,  \* Runtime._code_actions per target: dict command -> [run, idxs]
    pysen_runs,    \* number of invocations of the analysis tool (_run_pysen)
    replaced,      \* per target and command: the runs that replaced the partition, in order
    rr,            \* the rerun threads: where each is in update_diagnostics
    ed,            \* the edit thread: where it is in update_diagnostics_range
    hist,          \* the calls of the two mutating handlers so far, with their arguments
    pre,           \* the cache as it was when the last of them started
    read           \* the last read since then: its arguments and its result

\* Workspace (workspace.py), the registry of runtimes
VARIABLES
    ws_lock,            \* Workspace._lock: NoThread or the holding thread
    file_runtimes,      \* Workspace._file_runtimes: dict path -> runtime id
    workspace_runtime,  \* Workspace._workspace_runtime: None or Some(runtime id)
    runtimes,           \* every runtime constructed so far, by id: [kind, base_uri, path]
    notified,           \* server.show_message / show_message_log calls, in order
    wt                  \* the threads calling the registry: where each is

\* LanguageServerLogHandler (logger.py)
VARIABLES
    handler,            \* the handler object's attributes: a dict name -> value
    received,           \* show_message_log calls made by emit, in order
    records             \* the records emitted so far, with how each emit ended

\* a call of a function of diagnostic.py: its arguments and what it gave
VARIABLES fn

cacheVars == <<objs, lock, version, diagnostics, code_actions, pysen_runs, replaced,
               rr, ed, hist, pre, read>>
registryVars == <<ws_lock, file_runtimes, workspace_runtime, runtimes, notified, wt>>
loggerVars == <<handler, received, records>>
adapterVars == <<fn>>

vars == <<objs, lock, version, diagnostics, code_actions, pysen_runs, replaced,
          rr, ed, hist, pre, read,
          ws_lock, file_runtimes, workspace_runtime, runtimes, notified, wt,
          handler, received, records, fn>>

outsideCache == <<registryVars, loggerVars, adapterVars>>

\* the last call of a mutating handler, and the number of such calls
call == hist[Len(hist)]
nOps == Len(hist) - 1
NoRead == [op |-> "none"]

RerunThreads == {"r1", "r2"}

Snapshot ==
    [objs |-> objs, version |-> version, diagnostics |-> diagnostics,
     code_actions |-> code_actions, pysen_runs |-> pysen_runs]

\* ----------------------------------------------------- Runtime (runtime.py)
IncompatibleWith(name) == CASE name = "flake8" -> "Incompatible with flake8"
SourceOf(name) == CASE name = "flake8" -> "flake8(pysen)"
TitleOf(name) == CASE name = "flake8" -> "Apply suggestion from flake8 (pysen)"

\* FileRuntime.get_uri: always the runtime's own uri
get_uri(t, path) == t

SomeValues(ss) == [i \in DOMAIN ss |-> ss[i][1]]

\* the Diagnostic and CodeAction objects of one run; action i refers to the
\* Diagnostic built from the same finding by its index in diags
_convert_reports(t, ver, report) ==
    LET diags == [i \in DOMAIN report |->
                    [uri |-> get_uri(t, report[i].file_path),
                     diagnostic |-> create_diagnostic(
                         report[i], IncompatibleWith(report[i].reporter), None,
                         SourceOf(report[i].reporter))]]
        made  == [i \in DOMAIN report |->
                    create_code_action(TitleOf(report[i].reporter),
                                       get_uri(t, report[i].file_path), ver,
                                       report[i], <<i>>)]
    IN  [diags |-> diags,
         acts  |-> SomeValues(SelectSeq(made, LAMBDA a : a # None))]

AllIdxs(o) == [i \in DOMAIN o.acts |-> i]

\* lines 153-155: both dict entries of the command, under the lock
StoreDiagnostics(d, command, run) == DictSet(d, command, run)
\* a store that leaves the entry of a command that already has one
StoreCodeActions_IfAbsent(d, command, run, o) ==
    IF DictHas(d, command) THEN d
    ELSE DictSet(d, command, [run |-> run, idxs |-> AllIdxs(o)])

StoreCodeActions(d, command, run, o) ==
    DictSet(d, command, [run |-> run, idxs |-> AllIdxs(o)])

\* lines 209-214
ToAdd(update_text) ==
    LET raw == splitlines(update_text \o <<"a">>, FALSE)
    IN  [i \in DOMAIN raw |->
            IF i = Len(raw) THEN SubSeq(raw[i], 1, Len(raw[i]) - 1) ELSE raw[i]]

num_updated_lines(updated_range, update_text) ==
    (Len(ToAdd(update_text)) - 1) - (updated_range.end.line - updated_range.start.line)

num_add_characters_last_line(update_text) ==
    Len(ToAdd(update_text)[Len(ToAdd(update_text))])

ShiftLines(r, n) ==
    Range(Position(r.start.line + n, r.start.character),
          Position(r.end.line + n, r.end.character))

\* a remap that only shifts lines, whatever the position of the edit
update_logic_shift_only(target_range, updated_range, update_text) ==
    [keep |-> TRUE,
     range |-> ShiftLines(target_range, num_updated_lines(updated_range, update_text))]

\* lines 216-231: [keep, range], range being target_range as the call leaves it
update_logic(target_range, updated_range, update_text) ==
    LET n  == num_updated_lines(updated_range, update_text)
        ch == num_add_characters_last_line(update_text)
        sh == ShiftLines(target_range, n)
    IN  IF PosLT(target_range.end, updated_range.start)
        THEN [keep |-> TRUE, range |-> target_range]
        ELSE IF target_range.start.line >= updated_range.end.line
        THEN IF sh.start.line = updated_range.end.line
             THEN IF sh.start.character <= updated_range.end.character
                  THEN [keep |-> FALSE, range |-> sh]
                  ELSE [keep |-> TRUE,
                        range |-> Range(Position(sh.start.line, sh.start.character + ch),
                                        sh.end)]
             ELSE [keep |-> TRUE, range |-> sh]
        ELSE [keep |-> FALSE, range |-> target_range]

\* the related diagnostics tested and their ranges left as they were
RemapRelated_RangesUntouched(o, refs, keep, updated_range, update_text) ==
    [keep |-> keep /\ \A j \in DOMAIN refs :
                         update_logic(o.diags[refs[j]].diagnostic.range,
                                      updated_range, update_text).keep,
     o |-> o]

\* lines 246-248: `keep = keep and update_logic(diagnostic.range)` over the
\* related diagnostics of one action; o is the heap entry of the action's run
RECURSIVE RemapRelated(_, _, _, _, _)
RemapRelated(o, refs, keep, updated_range, update_text) ==
    IF refs = <<>> THEN [keep |-> keep, o |-> o]
    ELSE IF ~keep THEN RemapRelated(o, Tail(refs), FALSE, updated_range, update_text)
    ELSE LET r == update_logic(o.diags[Head(refs)].diagnostic.range,
                               updated_range, update_text)
             o2 == [o EXCEPT !.diags[Head(refs)].diagnostic.range = r.range]
         IN  RemapRelated(o2, Tail(refs), r.keep, updated_range, update_text)

\* lines 234-251: one code action of the list
RemapAction(o, i, updated_range, update_text) ==
    IF o.acts[i].edit = None THEN o
    ELSE LET e  == update_logic(o.acts[i].edit[1].range, updated_range, update_text)
             o1 == [o EXCEPT !.acts[i].edit[1].range = e.range]
             d  == RemapRelated(o1, o1.acts[i].diagnostics, e.keep,
                                updated_range, update_text)
         IN  IF d.keep THEN d.o ELSE [d.o EXCEPT !.acts[i].edit = None]

\* lines 234-251: the inner loop over one command's list of code actions
RECURSIVE ScanList(_, _, _, _)
ScanList(o, idxs, updated_range, update_text) ==
    IF idxs = <<>> THEN o
    ELSE ScanList(RemapAction(o, Head(idxs), updated_range, update_text),
                  Tail(idxs), updated_range, update_text)

\* lines 253-255
FilterList(o, lst) ==
    [run |-> lst.run, idxs |-> SelectSeq(lst.idxs, LAMBDA i : o.acts[i].edit # None)]

\* a remap over the actions of every run, whichever target they belong to
RemapEveryRun(h, d, k, updated_range, update_text) ==
    LET h2 == [run \in DOMAIN h |->
                  ScanList(h[run], AllIdxs(h[run]), updated_range, update_text)]
    IN  [objs |-> h2,
         dict |-> [i \in DOMAIN d |->
                     [key |-> d[i].key, val |-> FilterList(h2[d[i].val.run], d[i].val)]]]

\* lines 233-255 for the dict items k..Len: [objs, dict] after the loop
RECURSIVE RemapItems(_, _, _, _, _)
RemapItems(h, d, k, updated_range, update_text) ==
    IF k > Len(d) THEN [objs |-> h, dict |-> d]
    ELSE LET lst == d[k].val
             o   == ScanList(h[lst.run], lst.idxs, updated_range, update_text)
             h2  == [h EXCEPT ![lst.run] = o]
         IN  RemapItems(h2, [d EXCEPT ![k].val = FilterList(o, lst)], k + 1,
                        updated_range, update_text)

\* ------------------------------------------------------------ the readers
\* iter_diagnostics / iter_code_actions over a snapshot s of the cache
RECURSIVE Chain(_)
Chain(ss) == IF ss = <<>> THEN <<>> ELSE Head(ss) \o Chain(Tail(ss))

iter_diagnostics(s, t) ==
    Chain([k \in DOMAIN s.diagnostics[t] |-> s.objs[s.diagnostics[t][k].val].diags])

\* a CodeAction as a reader sees it: its related diagnostics resolved
ActionView(s, run, i) ==
    [id          |-> <<run, i>>,
     title       |-> s.objs[run].acts[i].title,
     kind        |-> s.objs[run].acts[i].kind,
     edit        |-> s.objs[run].acts[i].edit,
     diagnostics |-> [j \in DOMAIN s.objs[run].acts[i].diagnostics |->
                        s.objs[run].diags[s.objs[run].acts[i].diagnostics[j]].diagnostic]]

ListView(s, lst) == [j \in DOMAIN lst.idxs |-> ActionView(s, lst.run, lst.idxs[j])]

iter_code_actions(s, t) ==
    Chain([k \in DOMAIN s.code_actions[t] |-> ListView(s, s.code_actions[t][k].val)])

get_diagnostics(s, t) ==
    [i \in DOMAIN iter_diagnostics(s, t) |-> iter_diagnostics(s, t)[i].diagnostic]

query_code_actions(s, t, target_range) ==
    IF target_range = None THEN iter_code_actions(s, t)
    ELSE SelectSeq(iter_code_actions(s, t),
                   LAMBDA a : /\ a.diagnostics # <<>>
                              /\ \E j \in DOMAIN a.diagnostics :
                                    has_overlap(a.diagnostics[j].range, target_range[1]))

\* --------------------------------------------------------------- handlers
InitCache ==
    /\ objs = <<>>
    /\ lock = [t \in Targets |-> NoThread]
    /\ version = [t \in Targets |-> None]
    /\ diagnostics = [t \in Targets |-> <<>>]
    /\ code_actions = [t \in Targets |-> <<>>]
    /\ pysen_runs = 0
    /\ replaced = [t \in Targets |-> [c \in Commands |-> <<>>]]
    /\ rr = [th \in RerunThreads |-> [pc |-> "idle"]]
    /\ ed = [pc |-> "idle", n |-> 0]
    /\ hist = <<[op |-> "init"]>>
    /\ pre = [objs |-> <<>>, version |-> [t \in Targets |-> None],
              diagnostics |-> [t \in Targets |-> <<>>],
              code_actions |-> [t \in Targets |-> <<>>], pysen_runs |-> 0]
    /\ read = NoRead

\* Workspace.__init__ (workspace.py 16-20); no thread is in the registry
WsThreads == {"w1", "w2"}
InitRegistry ==
    /\ ws_lock = NoThread
    /\ file_runtimes = <<>>
    /\ workspace_runtime = None
    /\ runtimes = <<>>
    /\ notified = <<>>
    /\ wt = [th \in WsThreads |-> [pc |-> "idle", n |-> 0]]

\* LanguageServerLogHandler() (logger.py 20): the class defines no __init__,
\* so the object starts with no attribute of its own
InitLogger ==
    /\ handler = <<>>
    /\ received = <<>>
    /\ records = <<>>

NoCall == [op |-> "none"]
InitAdapter == fn = NoCall

Init == InitCache /\ InitRegistry /\ InitLogger /\ InitAdapter

\* FileRuntime.update_diagnostics(command, document_version), run to completion;
\* report is what the analysis tool returns for this run
update_diagnostics(t, command, document_version, report) ==
    /\ nOps < MaxOps
    /\ lock[t] = NoThread
    /\ LET o   == _convert_reports(t, document_version, report)
           run == Len(objs) + 1
       IN  /\ objs' = Append(objs, o)
           /\ diagnostics' =
                [diagnostics EXCEPT ![t] = StoreDiagnostics(@, command, run)]
           /\ code_actions' =
                [code_actions EXCEPT ![t] = StoreCodeActions(@, command, run, o)]
    /\ version' = [version EXCEPT ![t] = document_version]
    /\ pysen_runs' = pysen_runs + 1
    /\ replaced' = [replaced EXCEPT ![t][command] = Append(@, Len(objs) + 1)]
    /\ hist' = Append(hist, [op |-> "rerun", target |-> t, command |-> command,
                             version |-> document_version, report |-> report])
    /\ pre' = Snapshot
    /\ read' = NoRead
    /\ UNCHANGED <<lock, rr, ed>>

\* FileRuntime.update_diagnostics_range(updated_range, update_text), run to completion
update_diagnostics_range(t, updated_range, update_text) ==
    /\ nOps < MaxOps
    /\ LET r == RemapItems(objs, code_actions[t], 1, updated_range, update_text)
       IN  /\ objs' = r.objs
           /\ code_actions' = [code_actions EXCEPT ![t] = r.dict]
    /\ hist' = Append(hist, [op |-> "applyEdit", target |-> t,
                             range |-> updated_range, text |-> update_text])
    /\ pre' = Snapshot
    /\ read' = NoRead
    /\ UNCHANGED <<lock, version, diagnostics, pysen_runs, replaced, rr, ed>>

\* FileRuntime.query_code_actions(target_range)
QueryCodeActions(t, target_range) ==
    /\ read' = [op |-> "queryActions", target |-> t, selection |-> target_range,
                result |-> query_code_actions(Snapshot, t, target_range)]
    /\ UNCHANGED <<objs, lock, version, diagnostics, code_actions, pysen_runs,
                   replaced, rr, ed, hist, pre>>

\* FileRuntime.get_diagnostics()
GetDiagnostics(t) ==
    /\ read' = [op |-> "diagnostics", target |-> t,
                result |-> get_diagnostics(Snapshot, t)]
    /\ UNCHANGED <<objs, lock, version, diagnostics, code_actions, pysen_runs,
                   replaced, rr, ed, hist, pre>>

\* ----------------------------------------------------------------- inputs
Finding(sl, sc, el, msg, diff) ==
    [file_path |-> "a.py", reporter |-> "flake8", start_line |-> sl,
     start_column |-> sc, end_line |-> el, message |-> msg, diff |-> diff]

DiffInsert == <<"+", "b", "\n">>
DiffReplace == <<"-", "a", "\n", "+", "b", "\n">>

\* findings of the analysis tool: without location and without fix; at one
\* position with a fix; over lines with a replacing fix; on the second line
\* without fix
Findings ==
    {Finding(None, None, None, Some("m"), None),
     Finding(Some(1), Some(2), None, None, Some(DiffInsert)),
     Finding(Some(2), None, Some(2), Some("m"), Some(DiffReplace)),
     Finding(Some(2), Some(2), None, Some("m"), None)}

RECURSIVE SeqsUpTo(_, _)
SeqsUpTo(S, n) ==
    IF n = 0 THEN {<<>>}
    ELSE SeqsUpTo(S, n - 1) \cup
         {Append(q, x) : q \in {p \in SeqsUpTo(S, n - 1) : Len(p) = n - 1}, x \in S}

Reports == SeqsUpTo(Findings, MaxFindings)
Versions == {None, Some(1)}

\* the grid of edit positions, and the lines an edited range spans at most
MaxLine == 2
MaxChar == 2
MaxSpan == 1
Positions == {Position(l, c) : l \in 0..MaxLine, c \in 0..MaxChar}
EditRanges ==
    {Range(se[1], se[2]) :
        se \in {x \in Positions \X Positions :
                    PosLE(x[1], x[2]) /\ x[2].line - x[1].line <= MaxSpan}}
Texts == {<<>>, <<"a">>, <<"a", "\n">>, <<"\r", "\n", "\n", "a", "b">>}

\* -------------------------------------------------------- specifications
\* The handlers run to completion, one after the other, as the server's
\* synchronous handlers do.  The server makes a FileRuntime only together with
\* its first rerun (server.py 230-234, 275-279), so edits and reads are
\* explored from the first rerun on, and one read after each call.

\* Spec: two documents, two commands, every handler, a few inputs of each kind.
SystemReports ==
    {<<>>,
     <<Finding(Some(1), Some(2), None, None, Some(DiffInsert))>>,
     <<Finding(None, None, None, Some("m"), None),
       Finding(Some(2), None, Some(2), Some("m"), Some(DiffReplace))>>}

SystemEdits ==
    {[range |-> Range(Position(0, 0), Position(0, 0)), text |-> <<"a", "\n">>],
     [range |-> Range(Position(0, 1), Position(0, 1)), text |-> <<"a">>],
     [range |-> Range(Position(1, 0), Position(1, 1)), text |-> <<>>],
     [range |-> Range(Position(2, 1), Position(2, 2)), text |-> <<"a">>]}

Selections ==
    {None,
     Some(Range(Position(0, 0), Position(0, 0))),
     Some(Range(Position(0, 1), Position(1, 0))),
     Some(Range(Position(2, 0), Position(2, 0)))}

Rerun == \E t \in Targets, c \in Commands, v \in Versions, report \in SystemReports :
            update_diagnostics(t, c, v, report)
    /\ UNCHANGED outsideCache

ApplyEdit == \E t \in Targets, e \in SystemEdits :
                /\ objs # <<>>
                /\ update_diagnostics_range(t, e.range, e.text)
                /\ UNCHANGED outsideCache

Query == \E t \in Targets, sel \in Selections :
            /\ objs # <<>>
            /\ read = NoRead
            /\ QueryCodeActions(t, sel)
            /\ UNCHANGED outsideCache

Diagnostics == \E t \in Targets :
                  /\ objs # <<>>
                  /\ read = NoRead
                  /\ GetDiagnostics(t)
                  /\ UNCHANGED outsideCache

Next == Rerun \/ ApplyEdit \/ Query \/ Diagnostics

Spec == Init /\ [][Next]_vars

\* SpecRemap: one document, one command, every report and every edit of the grid.
DocTarget == "file:///a.py"

RemapRerun == \E report \in Reports : update_diagnostics(DocTarget, "lint", None, report)
    /\ UNCHANGED outsideCache

RemapEdit == \E r \in EditRanges, text \in Texts :
                /\ objs # <<>>
                /\ update_diagnostics_range(DocTarget, r, text)
                /\ UNCHANGED outsideCache

NextRemap == RemapRerun \/ RemapEdit

SpecRemap == Init /\ [][NextRemap]_vars

\* ------------------------------------------------------------- threads
\* The same two handlers, statement by statement, called from several threads:
\* two threads in update_diagnostics, one in update_diagnostics_range.  Each
\* step below is one statement (or one run of statements that touch no shared
\* object) of runtime.py.

\* a rerun that takes the runtime's lock before the analysis starts
T_Begin_UnderLock(th, t, command, document_version, report) ==
    /\ rr[th].pc = "idle"
    /\ pysen_runs < MaxThreadRuns
    /\ lock[t] = NoThread
    /\ lock' = [lock EXCEPT ![t] = th]
    /\ version' = [version EXCEPT ![t] = document_version]
    /\ pysen_runs' = pysen_runs + 1
    /\ rr' = [rr EXCEPT ![th] = [pc |-> "analysed", target |-> t,
                                 command |-> command, report |-> report]]
    /\ UNCHANGED <<objs, diagnostics, code_actions, replaced, ed, hist, pre, read>>

\* line 262, and _run_pysen of line 151 started
T_Begin(th, t, command, document_version, report) ==
    /\ rr[th].pc = "idle"
    /\ pysen_runs < MaxThreadRuns
    /\ version' = [version EXCEPT ![t] = document_version]
    /\ pysen_runs' = pysen_runs + 1
    /\ rr' = [rr EXCEPT ![th] = [pc |-> "analysed", target |-> t,
                                 command |-> command, report |-> report]]
    /\ UNCHANGED <<objs, lock, diagnostics, code_actions, replaced, ed, hist, pre, read>>

\* line 152: _convert_reports; get_version reads self._version as it is now
T_Convert(th) ==
    /\ rr[th].pc = "analysed"
    /\ objs' = Append(objs, _convert_reports(rr[th].target, version[rr[th].target],
                                             rr[th].report))
    /\ rr' = [rr EXCEPT ![th] = [pc |-> "converted", target |-> rr[th].target,
                                 command |-> rr[th].command, run |-> Len(objs) + 1]]
    /\ UNCHANGED <<lock, version, diagnostics, code_actions, pysen_runs, replaced,
                   ed, hist, pre, read>>

\* the with statement of line 153 without the lock behind it
T_Lock_NoWait(th) ==
    /\ rr[th].pc = "converted"
    /\ rr' = [rr EXCEPT ![th].pc = "locked"]
    /\ UNCHANGED <<objs, lock, version, diagnostics, code_actions, pysen_runs, replaced,
                   ed, hist, pre, read>>

\* line 153: with self._lock
T_Lock(th) ==
    /\ rr[th].pc = "converted"
    /\ lock[rr[th].target] = NoThread
    /\ lock' = [lock EXCEPT ![rr[th].target] = th]
    /\ rr' = [rr EXCEPT ![th].pc = "locked"]
    /\ UNCHANGED <<objs, version, diagnostics, code_actions, pysen_runs, replaced,
                   ed, hist, pre, read>>

\* line 154
T_StoreDiagnostics(th) ==
    /\ rr[th].pc = "locked"
    /\ diagnostics' = [diagnostics EXCEPT ![rr[th].target] =
                          StoreDiagnostics(@, rr[th].command, rr[th].run)]
    /\ rr' = [rr EXCEPT ![th].pc = "stored_diagnostics"]
    /\ UNCHANGED <<objs, lock, version, code_actions, pysen_runs, replaced,
                   ed, hist, pre, read>>

\* line 155
T_StoreCodeActions(th) ==
    /\ rr[th].pc = "stored_diagnostics"
    /\ code_actions' = [code_actions EXCEPT ![rr[th].target] =
                          StoreCodeActions(@, rr[th].command, rr[th].run,
                                           objs[rr[th].run])]
    /\ replaced' = [replaced EXCEPT ![rr[th].target][rr[th].command] =
                        Append(@, rr[th].run)]
    /\ rr' = [rr EXCEPT ![th].pc = "stored_code_actions"]
    /\ UNCHANGED <<objs, lock, version, diagnostics, pysen_runs, ed, hist, pre, read>>

\* leaving the with block of line 153
T_Unlock(th) ==
    /\ rr[th].pc = "stored_code_actions"
    /\ lock' = [lock EXCEPT ![rr[th].target] = NoThread]
    /\ rr' = [rr EXCEPT ![th] = [pc |-> "idle"]]
    /\ UNCHANGED <<objs, version, diagnostics, code_actions, pysen_runs, replaced,
                   ed, hist, pre, read>>

\* lines 209-214 and the items() iterator of line 233, which remembers the
\* size of the dict
E_Begin(t, updated_range, update_text) ==
    /\ ed.pc = "idle"
    /\ ed.n < MaxThreadEdits
    /\ ed' = [pc |-> "iterating", n |-> ed.n + 1, target |-> t,
              range |-> updated_range, text |-> update_text,
              k |-> 1, size |-> Len(code_actions[t])]
    /\ UNCHANGED <<objs, lock, version, diagnostics, code_actions, pysen_runs,
                   replaced, rr, hist, pre, read>>

\* line 233, next item: "dictionary changed size during iteration" ends the handler
E_RuntimeError ==
    /\ ed.pc = "iterating"
    /\ Len(code_actions[ed.target]) # ed.size
    /\ ed' = [pc |-> "idle", n |-> ed.n]
    /\ UNCHANGED <<objs, lock, version, diagnostics, code_actions, pysen_runs,
                   replaced, rr, hist, pre, read>>
    /\ UNCHANGED outsideCache

\* line 233, no item left
E_Done ==
    /\ ed.pc = "iterating"
    /\ Len(code_actions[ed.target]) = ed.size
    /\ ed.k > ed.size
    /\ ed' = [pc |-> "idle", n |-> ed.n]
    /\ UNCHANGED <<objs, lock, version, diagnostics, code_actions, pysen_runs,
                   replaced, rr, hist, pre, read>>
    /\ UNCHANGED outsideCache

\* line 233, next item bound to (command, code_actions), and lines 234-251 on it
E_Scan ==
    /\ ed.pc = "iterating"
    /\ Len(code_actions[ed.target]) = ed.size
    /\ ed.k <= ed.size
    /\ LET item == code_actions[ed.target][ed.k]
       IN  /\ objs' = [objs EXCEPT ![item.val.run] =
                          ScanList(@, item.val.idxs, ed.range, ed.text)]
           /\ ed' = [pc |-> "scanned", n |-> ed.n, target |-> ed.target,
                     range |-> ed.range, text |-> ed.text, k |-> ed.k,
                     size |-> ed.size, command |-> item.key, list |-> item.val]
    /\ UNCHANGED <<lock, version, diagnostics, code_actions, pysen_runs,
                   replaced, rr, hist, pre, read>>
    /\ UNCHANGED outsideCache

\* lines 253-255: the filtered list stored under the command
E_Store ==
    /\ ed.pc = "scanned"
    /\ code_actions' = [code_actions EXCEPT ![ed.target] =
                          DictSet(@, ed.command, FilterList(objs[ed.list.run], ed.list))]
    /\ ed' = [pc |-> "iterating", n |-> ed.n, target |-> ed.target,
              range |-> ed.range, text |-> ed.text, k |-> ed.k + 1, size |-> ed.size]
    /\ UNCHANGED <<objs, lock, version, diagnostics, pysen_runs, replaced,
                   rr, hist, pre, read>>
    /\ UNCHANGED outsideCache

ThreadReports ==
    {<<Finding(Some(1), Some(2), None, None, Some(DiffInsert))>>,
     <<Finding(None, None, None, Some("m"), None),
       Finding(Some(2), None, Some(2), Some("m"), Some(DiffReplace))>>}

ThreadEdits ==
    {[range |-> Range(Position(0, 0), Position(0, 0)), text |-> <<"a", "\n">>],
     [range |-> Range(Position(0, 1), Position(0, 1)), text |-> <<"a">>]}

RerunBegin == \E th \in RerunThreads, c \in Commands, report \in ThreadReports :
                 T_Begin(th, DocTarget, c, None, report)
    /\ UNCHANGED outsideCache
RerunConvert == \E th \in RerunThreads : T_Convert(th)
    /\ UNCHANGED outsideCache
RerunLock == \E th \in RerunThreads : T_Lock(th)
    /\ UNCHANGED outsideCache
RerunStoreDiagnostics == \E th \in RerunThreads : T_StoreDiagnostics(th)
    /\ UNCHANGED outsideCache
RerunStoreCodeActions == \E th \in RerunThreads : T_StoreCodeActions(th)
    /\ UNCHANGED outsideCache
RerunUnlock == \E th \in RerunThreads : T_Unlock(th)
    /\ UNCHANGED outsideCache
EditBegin == \E e \in ThreadEdits : E_Begin(DocTarget, e.range, e.text)
    /\ UNCHANGED outsideCache

NextThreads ==
    \/ RerunBegin \/ RerunConvert \/ RerunLock \/ RerunStoreDiagnostics
    \/ RerunStoreCodeActions \/ RerunUnlock
    \/ EditBegin \/ E_RuntimeError \/ E_Done \/ E_Scan \/ E_Store

SpecThreads == Init /\ [][NextThreads]_vars

\* --------------------------------------------- Workspace (workspace.py)
\* calls the threads make to the registry in one behaviour, all together
MaxRegistryCalls == 3

\* documents: two uris of one file, and a file that is not a python file
Uris == {"file:///p/a.py", "file:///p/./a.py", "file:///p/n.txt"}
Roots == {"file:///p", "file:///q"}

\* pathlib.Path(document.path): the path of the uri, "." segments dropped
PathOf(uri) ==
    CASE uri = "file:///p/a.py"   -> "/p/a.py"
      [] uri = "file:///p/./a.py" -> "/p/a.py"
      [] uri = "file:///p/b.py"   -> "/p/b.py"
      [] uri = "file:///p/n.txt"  -> "/p/n.txt"
      [] uri = "file:///p"        -> "/p"
      [] uri = "file:///q"        -> "/q"

Suffix(path) ==
    CASE path = "/p/a.py"  -> ".py"
      [] path = "/p/b.py"  -> ".py"
      [] path = "/p/n.txt" -> ".txt"

_should_create_runtime(path) == Suffix(path) \in {".py", ".pyc"}

_lookup_file_runtime(target_file) ==
    IF DictHas(file_runtimes, target_file)
    THEN Some(DictGet(file_runtimes, target_file)) ELSE None

\* how the construction of a runtime ends (Runtime.__init__, runtime.py 72-77):
\* _find_pyproject raises FileNotFoundError, pysen raises a PysenError
ProjectLoads == {"ok", "FileNotFoundError", "PysenError"}

\* python values passed as a message: an f-string, or a tuple holding one
StrMsg(kind, path) == [py |-> "str", kind |-> kind, path |-> path]
TupleOf(m) == [py |-> "tuple", items |-> <<m>>]

\* server.show_message(message, type): ShowMessageParams declares message: str,
\* which a str satisfies; what a tuple does is left to the protocol library
\* (pygls 0.10 builds a pydantic model, whose validation rejects it)
ShowMessageEnds(message) ==
    IF message.py = "str" THEN {"sent"} ELSE {"sent", "ValidationError"}

Shown(method, message, type) == [method |-> method, message |-> message, type |-> type]

Idle(th) == wt[th].pc \in {"idle", "returned"}
Returning(th, result, raised) ==
    [wt EXCEPT ![th] = [pc |-> "unlocking", op |-> wt[th].op, uri |-> wt[th].uri,
                        force |-> wt[th].force, n |-> wt[th].n,
                        result |-> result, raised |-> raised]]
Constructed(th, runtime) ==
    [wt EXCEPT ![th] = [pc |-> "constructed", op |-> wt[th].op, uri |-> wt[th].uri,
                        force |-> wt[th].force, n |-> wt[th].n, runtime |-> runtime]]
At(th, pc, op) == wt[th].pc = pc /\ wt[th].op = op
Goto(th, pc) == [wt EXCEPT ![th].pc = pc]

RECURSIVE CallsOf(_)
CallsOf(ths) ==
    IF ths = {} THEN 0
    ELSE LET th == CHOOSE x \in ths : TRUE IN wt[th].n + CallsOf(ths \ {th})

\* a thread enters one of the three methods
Call(th, op, uri, force) ==
    /\ Idle(th)
    /\ CallsOf(WsThreads) < MaxRegistryCalls
    /\ wt' = [wt EXCEPT ![th] = [pc |-> "waiting", op |-> op, uri |-> uri,
                                 force |-> force, n |-> wt[th].n + 1]]
    /\ UNCHANGED <<ws_lock, file_runtimes, workspace_runtime, runtimes, notified>>

\* a lock taken whoever holds it
W_Acquire_NoWait(th) ==
    /\ wt[th].pc = "waiting"
    /\ ws_lock' = th
    /\ wt' = Goto(th, "locked")
    /\ UNCHANGED <<file_runtimes, workspace_runtime, runtimes, notified>>

\* `with self._lock:` (lines 35, 64, 94), entry
W_Acquire(th) ==
    /\ wt[th].pc = "waiting"
    /\ ws_lock = NoThread
    /\ ws_lock' = th
    /\ wt' = Goto(th, "locked")
    /\ UNCHANGED <<file_runtimes, workspace_runtime, runtimes, notified>>

\* a return that leaves the lock taken when an exception passes through
W_Release_NotOnRaise(th) ==
    /\ wt[th].pc = "unlocking"
    /\ ws_lock' = IF ws_lock = th /\ wt[th].raised = None THEN NoThread ELSE ws_lock
    /\ wt' = Goto(th, "returned")
    /\ UNCHANGED <<file_runtimes, workspace_runtime, runtimes, notified>>

\* `with self._lock:`, exit, by return or by an exception passing through
W_Release(th) ==
    /\ wt[th].pc = "unlocking"
    /\ ws_lock' = IF ws_lock = th THEN NoThread ELSE ws_lock
    /\ wt' = Goto(th, "returned")
    /\ UNCHANGED <<file_runtimes, workspace_runtime, runtimes, notified>>

\* a runtime object is constructed and gets the next id
NewRuntime(kind, base_uri, path) ==
    Append(runtimes, [kind |-> kind, base_uri |-> base_uri, path |-> path])

\* ---- create_file_runtime(uri, force), lines 61-91
\* lines 65-68: the lookup, and whether a runtime is to be created
F_Lookup(th) ==
    /\ At(th, "locked", "create_file_runtime")
    /\ wt' = IF _lookup_file_runtime(PathOf(wt[th].uri)) = None
                /\ _should_create_runtime(PathOf(wt[th].uri))
             THEN Goto(th, "constructing")
             ELSE Returning(th, _lookup_file_runtime(PathOf(wt[th].uri)), None)
    /\ UNCHANGED <<ws_lock, file_runtimes, workspace_runtime, runtimes, notified>>

\* line 71: FileRuntime(uri, path)
F_Construct(th, how) ==
    /\ At(th, "constructing", "create_file_runtime")
    /\ IF how = "ok"
       THEN /\ runtimes' = NewRuntime("file", wt[th].uri, PathOf(wt[th].uri))
            /\ wt' = Constructed(th, Len(runtimes) + 1)
       ELSE /\ wt' = Goto(th, how)
            /\ UNCHANGED runtimes
    /\ UNCHANGED <<ws_lock, file_runtimes, workspace_runtime, notified>>

\* lines 72-75, then the return of line 91
F_Store(th) ==
    /\ At(th, "constructed", "create_file_runtime")
    /\ file_runtimes' = DictSet(file_runtimes, PathOf(wt[th].uri), wt[th].runtime)
    /\ notified' = Append(notified,
                          Shown("show_message_log",
                                StrMsg("pysen runtime activated", PathOf(wt[th].uri)),
                                "Info"))
    /\ wt' = Returning(th, Some(wt[th].runtime), None)
    /\ UNCHANGED <<ws_lock, workspace_runtime, runtimes>>

\* lines 76-82
F_FileNotFoundError(th) ==
    /\ At(th, "FileNotFoundError", "create_file_runtime")
    /\ notified' = IF wt[th].force
                   THEN Append(notified,
                               Shown("show_message",
                                     StrMsg("pysen project not found", PathOf(wt[th].uri)),
                                     "Error"))
                   ELSE notified
    /\ wt' = Returning(th, None, None)
    /\ UNCHANGED <<ws_lock, file_runtimes, workspace_runtime, runtimes>>

\* lines 83-89: message is a tuple (the trailing comma of line 85)
F_PysenError(th, end) ==
    /\ At(th, "PysenError", "create_file_runtime")
    /\ LET message == TupleOf(StrMsg("an error occurred while opening runtime for path",
                                     PathOf(wt[th].uri)))
       IN  /\ end \in ShowMessageEnds(message)
           /\ IF end = "sent"
              THEN /\ notified' = Append(notified, Shown("show_message", message, "Error"))
                   /\ wt' = Returning(th, None, None)
              ELSE /\ wt' = Returning(th, None, Some(end))
                   /\ UNCHANGED notified
    /\ UNCHANGED <<ws_lock, file_runtimes, workspace_runtime, runtimes>>

\* ---- get_file_runtime(uri), lines 93-99
L_Lookup(th) ==
    /\ At(th, "locked", "get_file_runtime")
    /\ wt' = Returning(th, _lookup_file_runtime(PathOf(wt[th].uri)), None)
    /\ UNCHANGED <<ws_lock, file_runtimes, workspace_runtime, runtimes, notified>>

\* ---- get_workspace_runtime(base_uri, base_path), lines 30-59
\* lines 36-37
R_Check(th) ==
    /\ At(th, "locked", "get_workspace_runtime")
    /\ wt' = IF workspace_runtime = None
                \/ runtimes[workspace_runtime[1]].base_uri # wt[th].uri
             THEN Goto(th, "constructing")
             ELSE Returning(th, workspace_runtime, None)
    /\ UNCHANGED <<ws_lock, file_runtimes, workspace_runtime, runtimes, notified>>

\* line 40: WorkspaceRuntime(base_uri, base_path)
R_Construct(th, how) ==
    /\ At(th, "constructing", "get_workspace_runtime")
    /\ IF how = "ok"
       THEN /\ runtimes' = NewRuntime("workspace", wt[th].uri, PathOf(wt[th].uri))
            /\ wt' = Constructed(th, Len(runtimes) + 1)
       ELSE /\ wt' = Goto(th, how)
            /\ UNCHANGED runtimes
    /\ UNCHANGED <<ws_lock, file_runtimes, workspace_runtime, notified>>

\* lines 41-44, then the return of line 59
R_Store(th) ==
    /\ At(th, "constructed", "get_workspace_runtime")
    /\ workspace_runtime' = Some(wt[th].runtime)
    /\ notified' = Append(notified,
                          Shown("show_message_log",
                                StrMsg("pysen runtime activated", PathOf(wt[th].uri)),
                                "Info"))
    /\ wt' = Returning(th, Some(wt[th].runtime), None)
    /\ UNCHANGED <<ws_lock, file_runtimes, runtimes>>

\* lines 45-50
R_FileNotFoundError(th) ==
    /\ At(th, "FileNotFoundError", "get_workspace_runtime")
    /\ notified' = Append(notified,
                          Shown("show_message",
                                StrMsg("pysen project not found", PathOf(wt[th].uri)),
                                "Error"))
    /\ wt' = Returning(th, None, None)
    /\ UNCHANGED <<ws_lock, file_runtimes, workspace_runtime, runtimes>>

\* lines 51-57: message is a tuple (the trailing comma of line 53)
R_PysenError(th, end) ==
    /\ At(th, "PysenError", "get_workspace_runtime")
    /\ LET message == TupleOf(StrMsg("an error occurred while opening runtime for path",
                                     PathOf(wt[th].uri)))
       IN  /\ end \in ShowMessageEnds(message)
           /\ IF end = "sent"
              THEN /\ notified' = Append(notified, Shown("show_message", message, "Error"))
                   /\ wt' = Returning(th, None, None)
              ELSE /\ wt' = Returning(th, None, Some(end))
                   /\ UNCHANGED notified
    /\ UNCHANGED <<ws_lock, file_runtimes, workspace_runtime, runtimes>>

outsideRegistry == <<cacheVars, loggerVars, adapterVars>>

CreateFileRuntime == \E th \in WsThreads, uri \in Uris, force \in BOOLEAN :
                        /\ Call(th, "create_file_runtime", uri, force)
                        /\ UNCHANGED outsideRegistry
GetFileRuntime == \E th \in WsThreads, uri \in Uris :
                     /\ Call(th, "get_file_runtime", uri, FALSE)
                     /\ UNCHANGED outsideRegistry
GetWorkspaceRuntime == \E th \in WsThreads, base_uri \in Roots :
                          /\ Call(th, "get_workspace_runtime", base_uri, FALSE)
                          /\ UNCHANGED outsideRegistry
Acquire == \E th \in WsThreads : W_Acquire(th) /\ UNCHANGED outsideRegistry
Release == \E th \in WsThreads : W_Release(th) /\ UNCHANGED outsideRegistry
FileLookup == \E th \in WsThreads : F_Lookup(th) /\ UNCHANGED outsideRegistry
FileConstruct == \E th \in WsThreads, how \in ProjectLoads :
                    F_Construct(th, how) /\ UNCHANGED outsideRegistry
FileStore == \E th \in WsThreads : F_Store(th) /\ UNCHANGED outsideRegistry
FileNotFound == \E th \in WsThreads : F_FileNotFoundError(th) /\ UNCHANGED outsideRegistry
FilePysenError == \E th \in WsThreads, end \in {"sent", "ValidationError"} :
                     F_PysenError(th, end) /\ UNCHANGED outsideRegistry
Lookup == \E th \in WsThreads : L_Lookup(th) /\ UNCHANGED outsideRegistry
RootCheck == \E th \in WsThreads : R_Check(th) /\ UNCHANGED outsideRegistry
RootConstruct == \E th \in WsThreads, how \in ProjectLoads :
                    R_Construct(th, how) /\ UNCHANGED outsideRegistry
RootStore == \E th \in WsThreads : R_Store(th) /\ UNCHANGED outsideRegistry
RootNotFound == \E th \in WsThreads : R_FileNotFoundError(th) /\ UNCHANGED outsideRegistry
RootPysenError == \E th \in WsThreads, end \in {"sent", "ValidationError"} :
                     R_PysenError(th, end) /\ UNCHANGED outsideRegistry

NextRegistry ==
    \/ CreateFileRuntime \/ GetFileRuntime \/ GetWorkspaceRuntime
    \/ Acquire \/ Release
    \/ FileLookup \/ FileConstruct \/ FileStore \/ FileNotFound \/ FilePysenError
    \/ Lookup
    \/ RootCheck \/ RootConstruct \/ RootStore \/ RootNotFound \/ RootPysenError

SpecRegistry == Init /\ [][NextRegistry]_vars

\* ------------------------------------------ the server's handlers
\* A handler of server.py asks the registry for a runtime and, when it gets
\* one, works on it: reruns for a document command, did_open or did_save
\* (_publish_file_diagnostics), an edit for did_change.  Handler i makes its
\* registry call as thread w<i> and its reruns as thread r<i>; the edits are
\* those of handler 2.
Handlers == {1, 2}
RegistryThread(i) == IF i = 1 THEN "w1" ELSE "w2"
RerunThread(i) == IF i = 1 THEN "r1" ELSE "r2"
HandlerUris == {"file:///p/a.py", "file:///p/b.py"}
\* the cache of the FileRuntime registered for a path
TargetOf(path) == IF path = "/p/a.py" THEN "file:///a.py" ELSE "file:///b.py"
HandlerReport == <<Finding(Some(1), Some(2), None, None, Some(DiffInsert))>>
HandlerEdit == [range |-> Range(Position(0, 0), Position(0, 0)), text |-> <<"a", "\n">>]

\* handler i has a FileRuntime in hand: its registry call returned one
HasRuntime(i) ==
    /\ wt[RegistryThread(i)].pc = "returned"
    /\ wt[RegistryThread(i)].op \in {"create_file_runtime", "get_file_runtime"}
    /\ wt[RegistryThread(i)].raised = None
    /\ wt[RegistryThread(i)].result # None
RuntimeTarget(i) == TargetOf(runtimes[wt[RegistryThread(i)].result[1]].path)
\* handler i is between two statements of its work on the runtime
Working(i) == rr[RerunThread(i)].pc # "idle" \/ (i = 2 /\ ed.pc # "idle")

\* server.py 230 (force=True), 275 (force=False)
H_CreateFileRuntime ==
    \E i \in Handlers, uri \in HandlerUris, force \in BOOLEAN :
        /\ ~Working(i)
        /\ Call(RegistryThread(i), "create_file_runtime", uri, force)
        /\ UNCHANGED outsideRegistry
\* server.py 292, 302
H_GetFileRuntime ==
    \E i \in Handlers, uri \in HandlerUris :
        /\ ~Working(i)
        /\ Call(RegistryThread(i), "get_file_runtime", uri, FALSE)
        /\ UNCHANGED outsideRegistry
\* server.py 193-194: runtime.update_diagnostics(target, None)
H_RerunBegin ==
    \E i \in Handlers :
        /\ HasRuntime(i)
        /\ ~Working(i)
        /\ T_Begin(RerunThread(i), RuntimeTarget(i), "lint", None, HandlerReport)
        /\ UNCHANGED outsideCache
\* server.py 315: runtime.update_diagnostics_range(change_range, change.text)
H_EditBegin ==
    /\ HasRuntime(2)
    /\ wt[RegistryThread(2)].op = "get_file_runtime"
    /\ ~Working(2)
    /\ E_Begin(RuntimeTarget(2), HandlerEdit.range, HandlerEdit.text)
    /\ UNCHANGED outsideCache

NextHandlers ==
    \/ H_CreateFileRuntime \/ H_GetFileRuntime
    \/ Acquire \/ Release
    \/ FileLookup \/ FileConstruct \/ FileStore \/ FileNotFound \/ FilePysenError
    \/ Lookup
    \/ H_RerunBegin \/ RerunConvert \/ RerunLock \/ RerunStoreDiagnostics
    \/ RerunStoreCodeActions \/ RerunUnlock
    \/ H_EditBegin \/ E_RuntimeError \/ E_Done \/ E_Scan \/ E_Store

SpecHandlers == Init /\ [][NextHandlers]_vars

\* the same handlers with fewer operations started, and a fair scheduler: a
\* thread that can take a step is not left waiting forever
MaxFairCalls == 2
MaxFairRuns == 2
MaxFairEdits == 1
Fair_CreateFileRuntime == CallsOf(WsThreads) < MaxFairCalls /\ H_CreateFileRuntime
Fair_GetFileRuntime == CallsOf(WsThreads) < MaxFairCalls /\ H_GetFileRuntime
Fair_RerunBegin == pysen_runs < MaxFairRuns /\ H_RerunBegin
Fair_EditBegin == ed.n < MaxFairEdits /\ H_EditBegin

NextHandlersFair ==
    \/ Fair_CreateFileRuntime \/ Fair_GetFileRuntime
    \/ Acquire \/ Release
    \/ FileLookup \/ FileConstruct \/ FileStore \/ FileNotFound \/ FilePysenError
    \/ Lookup
    \/ Fair_RerunBegin \/ RerunConvert \/ RerunLock \/ RerunStoreDiagnostics
    \/ RerunStoreCodeActions \/ RerunUnlock
    \/ Fair_EditBegin \/ E_RuntimeError \/ E_Done \/ E_Scan \/ E_Store

SpecHandlersFair == Init /\ [][NextHandlersFair]_vars /\ WF_vars(NextHandlersFair)

\* ------------------------------- textDocument/didChange (server.py 298-315)
\* A content change of a notification: a TextDocumentContentChangeEvent with
\* a range, one without a range, or a change of another type (the whole text).
Change(event, range, text) == [event |-> event, range |-> range, text |-> text]

\* lines 307-315, one change on the cache c = [objs, dict]: the isinstance
\* test, the test of change.range, and
\* runtime.update_diagnostics_range(change_range, change.text)
ApplyChange(c, change) ==
    IF ~change.event \/ change.range = None THEN c
    ELSE RemapItems(c.objs, c.dict, 1, change.range[1], change.text)

\* the loop of lines 305-315 with the changes taken last to first
RECURSIVE ApplyChanges_Reversed(_, _)
ApplyChanges_Reversed(c, changes) ==
    IF changes = <<>> THEN c
    ELSE ApplyChanges_Reversed(ApplyChange(c, changes[Len(changes)]),
                               SubSeq(changes, 1, Len(changes) - 1))

\* lines 305-315: `for change in changes`
RECURSIVE ApplyChanges(_, _)
ApplyChanges(c, changes) ==
    IF changes = <<>> THEN c
    ELSE ApplyChanges(ApplyChange(c, Head(changes)), Tail(changes))

\* notifications handled in one behaviour, which ends with the last of them,
\* and changes in one notification
MaxNotifications == 1
MaxChanges == 3
NotificationsIn(h) == Cardinality({k \in DOMAIN h : h[k].op = "didChange"})

\* _on_text_document_did_change(params), lines 298-315, with get_file_runtime
\* of workspace.py 93-99 (the lock taken and released within the call)
_on_text_document_did_change(uri, changes) ==
    /\ nOps < MaxOps
    /\ NotificationsIn(hist) < MaxNotifications
    /\ \A th \in WsThreads : Idle(th)
    /\ ws_lock = NoThread
    /\ LET runtime == _lookup_file_runtime(PathOf(uri))
       IN  IF runtime = None
           THEN UNCHANGED <<objs, code_actions>>
           ELSE LET t == TargetOf(runtimes[runtime[1]].path)
                    r == ApplyChanges([objs |-> objs, dict |-> code_actions[t]], changes)
                IN  /\ objs' = r.objs
                    /\ code_actions' = [code_actions EXCEPT ![t] = r.dict]
    /\ hist' = Append(hist, [op |-> "didChange", uri |-> uri, changes |-> changes])
    /\ pre' = Snapshot
    /\ read' = NoRead
    /\ UNCHANGED <<lock, version, diagnostics, pysen_runs, replaced, rr, ed>>

DidChangeUris == {"file:///p/a.py", "file:///p/./a.py", "file:///p/b.py"}
DidChangeReports ==
    {<<Finding(Some(1), Some(2), None, None, Some(DiffInsert))>>,
     <<Finding(Some(2), Some(2), None, Some("m"), None),
       Finding(Some(2), None, Some(2), Some("m"), Some(DiffReplace))>>}
Changes ==
    {Change(TRUE, Some(Range(Position(0, 0), Position(0, 0))), <<"a", "\n">>),
     Change(TRUE, Some(Range(Position(0, 1), Position(0, 1))), <<"a">>),
     Change(TRUE, None, <<"a">>),
     Change(FALSE, None, <<"a">>)}
ChangeLists == SeqsUpTo(Changes, MaxChanges)

\* did_open, lines 271-279: create_file_runtime(uri), statement by statement
DidOpen ==
    \E uri \in DidChangeUris :
        /\ NotificationsIn(hist) < MaxNotifications
        /\ \A th \in WsThreads : Idle(th)
        /\ Call("w1", "create_file_runtime", uri, FALSE)
        /\ UNCHANGED outsideRegistry
\* did_open, lines 276-279: the reruns of _publish_file_diagnostics
DidOpenPublish ==
    \E report \in DidChangeReports :
        /\ NotificationsIn(hist) < MaxNotifications
        /\ HasRuntime(1)
        /\ update_diagnostics(RuntimeTarget(1), "lint", None, report)
        /\ UNCHANGED outsideCache
DidChange ==
    \E uri \in DidChangeUris, changes \in ChangeLists :
        /\ _on_text_document_did_change(uri, changes)
        /\ UNCHANGED outsideCache

NextDidChange ==
    \/ DidOpen \/ Acquire \/ Release
    \/ FileLookup \/ FileConstruct \/ FileStore \/ FileNotFound \/ FilePysenError
    \/ DidOpenPublish \/ DidChange

SpecDidChange == Init /\ [][NextDidChange]_vars

\* ============================================ diagnostic.py, call by call
\* One call of a function of diagnostic.py on one input; fn records the call,
\* its arguments and what it returned or raised.
DiffDeleteOnly == <<"-", "a", "\n", "-", "b", "\n">>
DiffContext == <<" ", "a", "\n", "+", "b">>
DiffPlusMinus == <<"+", "-", "\r", "\n">>
DiffEmpty == <<>>
DiffHeader == <<"@", "\n", "+", "b", "\n">>
DiffCR == <<"+", "a", "\r", "-", "b">>
Diffs ==
    {DiffInsert, DiffReplace, DiffDeleteOnly, DiffContext, DiffPlusMinus,
     DiffEmpty, DiffHeader, DiffCR}

\* pysen reports lines and columns from 1
StartLines == {None, Some(1), Some(2)}
StartColumns == {None, Some(1), Some(3)}
EndLines == {None, Some(1), Some(2), Some(3)}
Messages == {None, Some("m")}
AdapterFindings ==
    {Finding(sl, sc, el, msg, diff) :
        sl \in StartLines, sc \in StartColumns, el \in EndLines,
        msg \in Messages, diff \in {None} \cup {Some(x) : x \in Diffs}}
OrderedRanges ==
    {Range(se[1], se[2]) : se \in {x \in Positions \X Positions : PosLE(x[1], x[2])}}
Codes == {None, Some("E501")}
Sources == {"flake8", "mypy"}
ReferenceLists == {<<>>, <<1>>, <<1, 2>>}

outsideAdapter == <<cacheVars, registryVars, loggerVars>>

GetDiagnosticRange(d) ==
    /\ fn = NoCall
    /\ fn' = [op |-> "get_diagnostic_range", diagnostic |-> d,
              result |-> get_diagnostic_range(d)]
    /\ UNCHANGED outsideAdapter

HasOverlap(lhs, rhs) ==
    /\ fn = NoCall
    /\ fn' = [op |-> "has_overlap", lhs |-> lhs, rhs |-> rhs,
              result |-> has_overlap(lhs, rhs)]
    /\ UNCHANGED outsideAdapter

\* line 48: assert diagnostic.diff is not None
CreateTextEdit(d) ==
    /\ fn = NoCall
    /\ fn' = IF d.diff = None
             THEN [op |-> "create_text_edit", diagnostic |-> d,
                   raised |-> Some("AssertionError"), result |-> None]
             ELSE [op |-> "create_text_edit", diagnostic |-> d,
                   raised |-> None, result |-> Some(create_text_edit(d))]
    /\ UNCHANGED outsideAdapter

CreateDiagnostic(d, default_message, code, source) ==
    /\ fn = NoCall
    /\ fn' = [op |-> "create_diagnostic", diagnostic |-> d,
              default_message |-> default_message, code |-> code, source |-> source,
              result |-> create_diagnostic(d, default_message, code, source)]
    /\ UNCHANGED outsideAdapter

CreateCodeAction(title, document_uri, document_version, d, reference_diagnostics) ==
    /\ fn = NoCall
    /\ fn' = [op |-> "create_code_action", title |-> title,
              document_uri |-> document_uri, document_version |-> document_version,
              diagnostic |-> d, reference_diagnostics |-> reference_diagnostics,
              result |-> create_code_action(title, document_uri, document_version,
                                            d, reference_diagnostics)]
    /\ UNCHANGED outsideAdapter

NextAdapter ==
    \/ \E d \in AdapterFindings : GetDiagnosticRange(d)
    \/ \E lhs \in OrderedRanges, rhs \in OrderedRanges : HasOverlap(lhs, rhs)
    \/ \E d \in AdapterFindings : CreateTextEdit(d)
    \/ \E d \in AdapterFindings, code \in Codes, source \in Sources :
          CreateDiagnostic(d, "default", code, source)
    \/ \E d \in AdapterFindings, t \in Targets, v \in Versions, refs \in ReferenceLists :
          CreateCodeAction("fix", t, v, d, refs)

SpecAdapter == Init /\ [][NextAdapter]_vars

\* ================================================================ logger.py
\* levels of the logging module, and the lsp message types they map to
DEBUG == 10
INFO == 20
WARNING == 30
ERROR == 40
CRITICAL == 50
NOTSET == 0
_LogLevelMap ==
    (DEBUG :> "Log") @@ (INFO :> "Info") @@ (WARNING :> "Warning") @@
    (ERROR :> "Error") @@ (CRITICAL :> "Error")

\* dict.get(loglevel, MessageType.Info)
_convert_loglevel(loglevel) ==
    IF loglevel \in DOMAIN _LogLevelMap THEN _LogLevelMap[loglevel] ELSE "Info"

MaxRecords == 3
Levels == {DEBUG - 1, DEBUG, INFO, WARNING, ERROR, CRITICAL, CRITICAL + 1, NOTSET}
\* record.msg is any object: a str, or a number
Msgs == {[py |-> "str", s |-> "tokyo"], [py |-> "int", n |-> 7]}
PyStr(msg) == IF msg.py = "str" THEN msg.s ELSE ToString(msg.n)
Servers == {None, Some("server")}

outsideLogger == <<cacheVars, registryVars, adapterVars>>

\* the setter of lines 25-27
SetServer(server) ==
    /\ handler' = DictSet(handler, "_server", server)
    /\ handler' # handler
    /\ UNCHANGED <<received, records>>
    /\ UNCHANGED outsideLogger

\* emit(record), lines 29-34; the getter of line 23 reads an attribute that
\* exists only once the setter has run
Emit(levelno, msg) ==
    /\ Len(records) < MaxRecords
    /\ IF ~DictHas(handler, "_server")
       THEN /\ records' = Append(records, [levelno |-> levelno, msg |-> msg,
                                           handler |-> handler,
                                           raised |-> Some("AttributeError")])
            /\ UNCHANGED received
       ELSE /\ records' = Append(records, [levelno |-> levelno, msg |-> msg,
                                           handler |-> handler, raised |-> None])
            /\ received' = IF DictGet(handler, "_server") = None
                           THEN received
                           ELSE Append(received,
                                       [message |-> PyStr(msg),
                                        type |-> _convert_loglevel(levelno)])
    /\ UNCHANGED handler
    /\ UNCHANGED outsideLogger

NextLogger ==
    \/ \E server \in Servers : SetServer(server)
    \/ \E levelno \in Levels, msg \in Msgs : Emit(levelno, msg)

SpecLogger == Init /\ [][NextLogger]_vars

\* ================================================================ claims
\* the partition of command c in target t, as a snapshot s holds it
HasDiagnostics(s, t, c) == DictHas(s.diagnostics[t], c)
HasCodeActions(s, t, c) == DictHas(s.code_actions[t], c)
DiagList(s, t, c) ==
    IF HasDiagnostics(s, t, c) THEN s.objs[DictGet(s.diagnostics[t], c)].diags ELSE <<>>
ActionList(s, t, c) ==
    IF HasCodeActions(s, t, c) THEN ListView(s, DictGet(s.code_actions[t], c)) ELSE <<>>
Elements(q) == {q[i] : i \in DOMAIN q}
Ids(q) == {q[i].id : i \in DOMAIN q}

InCriticalSection(th) ==
    rr[th].pc \in {"locked", "stored_diagnostics", "stored_code_actions"}
RemapInProgress(t) == ed.pc # "idle" /\ ed.target = t

\* C1: on one File Target a rerun's partition replacement and a remap pass
\* exclude each other: no rerun thread is inside the locked block of
\* _update_diagnostics while a pass of update_diagnostics_range over the same
\* target has started and not yet ended.
C1_RerunExcludesRemap ==
    \A th \in RerunThreads :
        InCriticalSection(th) => ~RemapInProgress(rr[th].target)

\* C2: in every state a lock-free reader can observe, a command's
\* diagnostics list and its list of code actions come from the same rerun.
C2_PartitionFromOneRun ==
    \A t \in Targets, c \in Commands :
        /\ HasDiagnostics(Snapshot, t, c) <=> HasCodeActions(Snapshot, t, c)
        /\ HasDiagnostics(Snapshot, t, c) =>
              DictGet(diagnostics[t], c) = DictGet(code_actions[t], c).run

Quiescent == \A th \in RerunThreads : rr[th].pc = "idle"
Last(q) == q[Len(q)]
AllReplaced == UNION {Elements(replaced[t][c]) : t \in Targets, c \in Commands}

\* C7: when reruns of one command on one target overlap (and no edit is
\* made), none is cancelled: once all are done every started run has replaced
\* the partition exactly once, and the partition holds the diagnostics and
\* all the code actions of the run that replaced last, and nothing else.
C7_LastWriterWins ==
    (Quiescent /\ ed.n = 0) =>
        /\ AllReplaced = 1..pysen_runs
        /\ \A t \in Targets, c \in Commands :
              /\ Len(replaced[t][c]) = Cardinality(Elements(replaced[t][c]))
              /\ replaced[t][c] # <<>> =>
                    /\ DictGet(diagnostics[t], c) = Last(replaced[t][c])
                    /\ DictGet(code_actions[t], c) =
                          [run  |-> Last(replaced[t][c]),
                           idxs |-> AllIdxs(objs[Last(replaced[t][c])])]
                    /\ Ids(ActionList(Snapshot, t, c)) =
                          {<<Last(replaced[t][c]), i>> :
                              i \in DOMAIN objs[Last(replaced[t][c])].acts}

\* two reruns of one command overlapped: the run converted first replaced last
C7_Witness ==
    /\ Quiescent /\ ed.n = 0
    /\ \E t \in Targets, c \in Commands :
          /\ Len(replaced[t][c]) = 2
          /\ replaced[t][c][1] > replaced[t][c][2]
          /\ objs[replaced[t][c][1]] # objs[replaced[t][c][2]]
          /\ objs[replaced[t][c][2]].acts # <<>>

\* ----------------------------------------------- claims on applyEdit
\* every code action of target t in snapshot s, and the ranges one owns
Actions(s, t) == Elements(iter_code_actions(s, t))
RelatedRanges(a) == {a.diagnostics[j].range : j \in DOMAIN a.diagnostics}
OwnedRanges(a) == {a.edit[1].range} \cup RelatedRanges(a)
StrictOverlap(e, r) == PosLT(e.start, r.end) /\ PosLT(r.start, e.end)
Ordered(r) == PosLE(r.start, r.end)
Cursor(p) == Some(Range(p, p))

\* C3: an edit whose replaced range strictly overlaps a range owned by a
\* cached action (its replacement range or a related diagnostic's range)
\* removes that action: no query returns it after the edit.
C3_OverlapInvalidates ==
    call.op = "applyEdit" =>
        \A a \in Actions(pre, call.target) :
            (\E r \in OwnedRanges(a) : StrictOverlap(call.range, r)) =>
                /\ a.id \notin Ids(query_code_actions(Snapshot, call.target, None))
                /\ \A r \in RelatedRanges(a) :
                      a.id \notin Ids(query_code_actions(Snapshot, call.target,
                                                        Cursor(r.start)))

\* C5: an edit entirely after a cached range (r.end < edit.start) leaves the
\* range as it was, all four coordinates, and leaves its action cached; this
\* for the range of every cached diagnostic and for every range an action owns.
C5_EditAfterRangeKeepsIt ==
    call.op = "applyEdit" =>
        /\ \A c \in Commands : \A i \in DOMAIN DiagList(pre, call.target, c) :
              PosLT(DiagList(pre, call.target, c)[i].diagnostic.range.end,
                    call.range.start) =>
                 /\ i \in DOMAIN DiagList(Snapshot, call.target, c)
                 /\ DiagList(Snapshot, call.target, c)[i].diagnostic.range =
                       DiagList(pre, call.target, c)[i].diagnostic.range
        /\ \A a \in Actions(pre, call.target) :
              (\E r \in OwnedRanges(a) : PosLT(r.end, call.range.start)) =>
                 \E b \in Actions(Snapshot, call.target) :
                    /\ b.id = a.id
                    /\ \A j \in DOMAIN a.diagnostics :
                          PosLT(a.diagnostics[j].range.end, call.range.start) =>
                             b.diagnostics[j].range = a.diagnostics[j].range
                    /\ PosLT(a.edit[1].range.end, call.range.start) =>
                          b.edit[1].range = a.edit[1].range

\* an edit that changes the number of lines, entirely after the range of a
\* cached action, which is still cached
C5_Witness ==
    /\ call.op = "applyEdit"
    /\ num_updated_lines(call.range, call.text) # 0
    /\ \E a \in Actions(pre, call.target) :
          /\ PosLT(a.edit[1].range.end, call.range.start)
          /\ a.edit[1].range.end.line = call.range.start.line
          /\ a.id \in Ids(iter_code_actions(Snapshot, call.target))

WellFormedFinding(f) ==
    f.end_line = None \/ f.end_line[1] = 0 \/ f.end_line[1] >= OrInt(f.start_line, 1)
WellFormedHistory ==
    \A k \in DOMAIN hist :
        hist[k].op = "rerun" =>
            \A i \in DOMAIN hist[k].report : WellFormedFinding(hist[k].report[i])

\* C8: every range held in a target's cache has start <= end, when the
\* findings of every rerun had their end line absent or not before their
\* start line, after any sequence of reruns and edits.
C8_RangesOrdered ==
    WellFormedHistory =>
        \A t \in Targets :
            /\ \A i \in DOMAIN iter_diagnostics(Snapshot, t) :
                  Ordered(iter_diagnostics(Snapshot, t)[i].diagnostic.range)
            /\ \A a \in Actions(Snapshot, t) : \A r \in OwnedRanges(a) : Ordered(r)

\* ----------------------------------------------- the end-to-end sequence
\* hist[2] is a rerun with one finding, which carries a diff
OneFixRerun ==
    /\ Len(hist) >= 2
    /\ hist[2].op = "rerun"
    /\ Len(hist[2].report) = 1
    /\ hist[2].report[1].diff # None
\* hist[3] inserts two lines at a position before the diagnostic's start
TwoLinesInsertedBefore ==
    /\ OneFixRerun
    /\ Len(hist) >= 3
    /\ hist[3].op = "applyEdit"
    /\ hist[3].range.start = hist[3].range.end
    /\ num_updated_lines(hist[3].range, hist[3].text) = 2
    /\ PosLT(hist[3].range.start, get_diagnostic_range(hist[2].report[1]).start)
\* hist[4] replaces exactly the start position the diagnostic has by then
StartPositionReplaced ==
    /\ TwoLinesInsertedBefore
    /\ Len(hist) = 4
    /\ hist[4].op = "applyEdit"
    /\ Len(get_diagnostics(pre, DocTarget)) = 1
    /\ hist[4].range = Range(get_diagnostics(pre, DocTarget)[1].range.start,
                             get_diagnostics(pre, DocTarget)[1].range.start)

C4_AfterRerun ==
    (OneFixRerun /\ Len(hist) = 2) =>
        /\ Len(get_diagnostics(Snapshot, DocTarget)) = 1
        /\ get_diagnostics(Snapshot, DocTarget)[1].range =
              get_diagnostic_range(hist[2].report[1])
        /\ LET fixes == query_code_actions(Snapshot, DocTarget,
                  Cursor(get_diagnostics(Snapshot, DocTarget)[1].range.start))
           IN  /\ Len(fixes) = 1
               /\ fixes[1].edit = Some([uri |-> DocTarget,
                                        version |-> hist[2].version,
                                        range |-> create_text_edit(hist[2].report[1]).range,
                                        new_text |-> create_text_edit(hist[2].report[1]).new_text])
               /\ fixes[1].diagnostics = get_diagnostics(Snapshot, DocTarget)

C4_AfterInsert ==
    (TwoLinesInsertedBefore /\ Len(hist) = 3) =>
        /\ Len(get_diagnostics(Snapshot, DocTarget)) = 1
        /\ get_diagnostics(Snapshot, DocTarget)[1].range.start.line =
              get_diagnostic_range(hist[2].report[1]).start.line + 2
        /\ get_diagnostics(Snapshot, DocTarget)[1].range.end.line =
              get_diagnostic_range(hist[2].report[1]).end.line + 2
        /\ Len(query_code_actions(Snapshot, DocTarget, None)) = 1

C4_AfterReplace ==
    StartPositionReplaced => query_code_actions(Snapshot, DocTarget, None) = <<>>

\* C4: after a rerun yielding one diagnostic with a diff, diagnostics()
\* returns it and a query at its start position returns exactly its fix; an
\* insertion of two lines before it moves its start and end line by 2 and
\* keeps the action; an edit that then replaces exactly its start position
\* drops the action, for every replacement text.
C4_EndToEnd == C4_AfterRerun /\ C4_AfterInsert /\ C4_AfterReplace

\* ------------------------------------------------- claims on the system
Partitions == Targets \X Commands
\* the findings of a report that carry a diff, by position
WithDiff(report) == SelectSeq([i \in DOMAIN report |-> i], LAMBDA i : report[i].diff # None)
NewRun == Len(pre.objs) + 1

\* C6: a rerun of a command on a target leaves in that partition one
\* diagnostic per finding of the run, in order, and one action per finding
\* with a diff, in order, all of them objects of this run; every other
\* partition of every target is as it was.
C6_RerunReplacesPartition ==
    call.op = "rerun" =>
        LET dl == DiagList(Snapshot, call.target, call.command)
            al == ActionList(Snapshot, call.target, call.command)
            wd == WithDiff(call.report)
        IN  /\ HasDiagnostics(Snapshot, call.target, call.command)
            /\ HasCodeActions(Snapshot, call.target, call.command)
            /\ DictGet(diagnostics[call.target], call.command) = NewRun
            /\ Len(dl) = Len(call.report)
            /\ \A i \in DOMAIN dl :
                  /\ dl[i].uri = call.target
                  /\ dl[i].diagnostic.range = get_diagnostic_range(call.report[i])
                  /\ dl[i].diagnostic.message =
                        OrStr(call.report[i].message,
                              IncompatibleWith(call.report[i].reporter))
            /\ Len(al) = Len(wd)
            /\ \A k \in DOMAIN al :
                  /\ al[k].id = <<NewRun, k>>
                  /\ al[k].diagnostics = <<dl[wd[k]].diagnostic>>
                  /\ al[k].edit =
                        Some([uri |-> call.target,
                              version |-> call.version,
                              range |-> create_text_edit(call.report[wd[k]]).range,
                              new_text |-> create_text_edit(call.report[wd[k]]).new_text])
            /\ \A p \in Partitions \ {<<call.target, call.command>>} :
                  /\ HasDiagnostics(Snapshot, p[1], p[2]) = HasDiagnostics(pre, p[1], p[2])
                  /\ HasCodeActions(Snapshot, p[1], p[2]) = HasCodeActions(pre, p[1], p[2])
                  /\ DiagList(Snapshot, p[1], p[2]) = DiagList(pre, p[1], p[2])
                  /\ ActionList(Snapshot, p[1], p[2]) = ActionList(pre, p[1], p[2])

\* a rerun with a fix over a partition that held another run's fix, next to a
\* partition of another command that holds one
C6_Witness ==
    /\ call.op = "rerun"
    /\ WithDiff(call.report) # <<>>
    /\ ActionList(pre, call.target, call.command) # <<>>
    /\ \E c \in Commands \ {call.command} : ActionList(pre, call.target, c) # <<>>
    /\ ActionList(Snapshot, call.target, call.command) #
          ActionList(pre, call.target, call.command)

\* C9: an edit runs no analysis, leaves every diagnostics list with the
\* entries it had, adds no action to any partition, leaves the partitions of
\* the other targets as they were, and leaves the document version alone.
C9_EditFrame ==
    call.op = "applyEdit" =>
        /\ pysen_runs = pre.pysen_runs
        /\ Len(objs) = Len(pre.objs)
        /\ version = pre.version
        /\ diagnostics = pre.diagnostics
        /\ \A p \in Partitions :
              /\ Len(DiagList(Snapshot, p[1], p[2])) = Len(DiagList(pre, p[1], p[2]))
              /\ HasCodeActions(Snapshot, p[1], p[2]) = HasCodeActions(pre, p[1], p[2])
              /\ Ids(ActionList(Snapshot, p[1], p[2])) \subseteq
                    Ids(ActionList(pre, p[1], p[2]))
              /\ p[1] # call.target =>
                    /\ DiagList(Snapshot, p[1], p[2]) = DiagList(pre, p[1], p[2])
                    /\ ActionList(Snapshot, p[1], p[2]) = ActionList(pre, p[1], p[2])

\* an edit of a versioned document that drops one of its actions while
\* another target holds a cached action
C9_Witness ==
    /\ call.op = "applyEdit"
    /\ version[call.target] # None
    /\ \E c \in Commands :
          Len(ActionList(Snapshot, call.target, c)) < Len(ActionList(pre, call.target, c))
    /\ \E t \in Targets \ {call.target} : iter_code_actions(Snapshot, t) # <<>>

\* start <= end on both ranges and each start <= the other's end
Intersect(a, b) ==
    \A p \in {a.start, b.start} : \A q \in {a.end, b.end} : PosLE(p, q)

\* C10: a query without a selection returns every cached action of every
\* partition of the target; a query with a selection returns exactly the
\* cached actions with at least one related diagnostic whose range overlaps
\* the selection; no action is returned twice.
C10_QueryResult ==
    read.op = "queryActions" =>
        LET all == UNION {Elements(ActionList(Snapshot, read.target, c)) : c \in Commands}
        IN  /\ Cardinality(Elements(read.result)) = Len(read.result)
            /\ read.selection = None => Elements(read.result) = all
            /\ read.selection # None =>
                  Elements(read.result) =
                     {a \in all : \E j \in DOMAIN a.diagnostics :
                                     Intersect(a.diagnostics[j].range, read.selection[1])}

\* a query with a selection that returns some of the cached actions, not all
C10_Witness ==
    /\ read.op = "queryActions"
    /\ read.selection # None
    /\ read.result # <<>>
    /\ Len(read.result) < Len(iter_code_actions(Snapshot, read.target))

\* --------------------------------------------- claims on the registry
FileRuntimesOf(path) ==
    {i \in DOMAIN runtimes : runtimes[i].kind = "file" /\ runtimes[i].path = path}
Paths == {PathOf(uri) : uri \in Uris}
\* thread th takes a step / returns from a call of method op
Steps(th) == wt'[th] # wt[th]
Returns(th, op) ==
    wt[th].pc = "unlocking" /\ wt'[th].pc = "returned" /\ wt[th].op = op

OneRuntimePerPath == \A path \in Paths : Cardinality(FileRuntimesOf(path)) <= 1
EntriesKept ==
    \A path \in DictKeys(file_runtimes) :
        /\ DictHas(file_runtimes', path)
        /\ DictGet(file_runtimes', path) = DictGet(file_runtimes, path)
ReturnsTheEntry ==
    \A th \in WsThreads :
        (Returns(th, "create_file_runtime") /\ wt[th].raised = None) =>
            wt[th].result = _lookup_file_runtime(PathOf(wt[th].uri))
LookupIsPure ==
    \A th \in WsThreads :
        (Steps(th) /\ wt'[th].op = "get_file_runtime") =>
            /\ UNCHANGED <<file_runtimes, workspace_runtime, runtimes, notified>>
            /\ Returns(th, "get_file_runtime") =>
                  /\ wt[th].raised = None
                  /\ wt[th].result = _lookup_file_runtime(PathOf(wt[th].uri))

\* C11: under every interleaving of calls at most one FileRuntime is ever
\* constructed for a path, an entry of the registry is never replaced or
\* removed, create_file_runtime returns the entry of the path (the one
\* already registered when there is one), and get_file_runtime returns the
\* entry or None and changes nothing.
C11_OneTargetPerPath ==
    /\ []OneRuntimePerPath
    /\ [][EntriesKept /\ ReturnsTheEntry /\ LookupIsPure]_vars

\* two threads asked for one file by two uris and both got the one runtime
C11_Witness ==
    /\ \A th \in WsThreads : wt[th].pc = "returned" /\ wt[th].op = "create_file_runtime"
    /\ wt["w1"].uri # wt["w2"].uri
    /\ wt["w1"].result # None
    /\ wt["w1"].result = wt["w2"].result
    /\ wt["w1"].n + wt["w2"].n = 2

\* the path a message shown to the user is about
MessagePath(m) == IF m.py = "str" THEN m.path ELSE m.items[1].path
LastShown == notified[Len(notified)]
ErrorShownFor(path) ==
    /\ notified # <<>>
    /\ LastShown.method = "show_message"
    /\ LastShown.type = "Error"
    /\ MessagePath(LastShown.message) = path
\* thread th is about to leave method op (it still holds the lock)
Leaving(th, op) == wt[th].pc = "unlocking" /\ wt[th].op = op

KeptRuntimeReturned ==
    \A th \in WsThreads :
        (/\ Steps(th)
         /\ wt'[th].op = "get_workspace_runtime"
         /\ workspace_runtime # None
         /\ runtimes[workspace_runtime[1]].base_uri = wt'[th].uri) =>
            /\ UNCHANGED <<workspace_runtime, runtimes>>
            /\ wt'[th].pc = "unlocking" =>
                  wt'[th].result = workspace_runtime /\ wt'[th].raised = None
WorkspaceResult ==
    \A th \in WsThreads :
        (Leaving(th, "get_workspace_runtime") /\ wt[th].raised = None) =>
            /\ wt[th].result # None =>
                  /\ workspace_runtime = wt[th].result
                  /\ runtimes[wt[th].result[1]].kind = "workspace"
                  /\ runtimes[wt[th].result[1]].base_uri = wt[th].uri
            /\ wt[th].result = None => ErrorShownFor(PathOf(wt[th].uri))
WorkspaceNeverRaises ==
    \A th \in WsThreads :
        Leaving(th, "get_workspace_runtime") => wt[th].raised = None

\* C12: get_workspace_runtime returns the kept runtime, constructing nothing,
\* when its base uri is the requested one; otherwise it constructs a runtime
\* that replaces the kept one and returns it; when the construction fails it
\* shows the user an error and returns None, and it never raises.
C12_OneWorkspaceTarget ==
    /\ [](WorkspaceResult /\ WorkspaceNeverRaises)
    /\ [][KeptRuntimeReturned]_vars

\* thread th takes the step that handles exception exc of FileRuntime(uri, path)
Handles(th, exc) == At(th, exc, "create_file_runtime") /\ Steps(th)
ReturnsNoneStoringNothing(th) ==
    /\ wt'[th].pc = "unlocking"
    /\ wt'[th].result = None
    /\ wt'[th].raised = None
    /\ UNCHANGED <<file_runtimes, workspace_runtime, runtimes>>
OneErrorShown(th) ==
    /\ Len(notified') = Len(notified) + 1
    /\ SubSeq(notified', 1, Len(notified)) = notified
    /\ notified'[Len(notified')].method = "show_message"
    /\ notified'[Len(notified')].type = "Error"
    /\ MessagePath(notified'[Len(notified')].message) = PathOf(wt[th].uri)
NotFoundHandled ==
    \A th \in WsThreads :
        Handles(th, "FileNotFoundError") =>
            /\ ReturnsNoneStoringNothing(th)
            /\ IF wt[th].force THEN OneErrorShown(th) ELSE UNCHANGED notified
LoadErrorHandled ==
    \A th \in WsThreads :
        Handles(th, "PysenError") =>
            /\ ReturnsNoneStoringNothing(th)
            /\ OneErrorShown(th)

\* C13: when no project root encloses the path, create_file_runtime returns
\* None, raises nothing and stores nothing, and shows "project not found" only
\* when the request was forced (an explicit command); on any other failure to
\* load the project it returns None, stores nothing and always shows an error.
C13_LoadFailuresReturnNone == [][NotFoundHandled /\ LoadErrorHandled]_vars

\* ---------------------------------------------- claims on diagnostic.py
\* the value of an optional number, d when it is absent
ValueOr(x, d) == IF x = None THEN d ELSE x[1]
\* some "-" of the text is the first character of a line
MinusOpensLine(text) ==
    \E i \in DOMAIN text :
        text[i] = "-" /\ (i = 1 \/ text[i - 1] \in LineBreaks)
Deletes(d) == d.diff # None /\ MinusOpensLine(d.diff[1])
ClaimedEndLine(d) ==
    ValueOr(d.end_line, ValueOr(d.start_line, 1)) + (IF Deletes(d) THEN 1 ELSE 0)
ClaimedRange(d) ==
    Range(Position(ValueOr(d.start_line, 1) - 1, ValueOr(d.start_column, 1) - 1),
          Position(ClaimedEndLine(d) - 1,
                   IF ClaimedEndLine(d) = ValueOr(d.start_line, 1)
                   THEN ValueOr(d.start_column, 1) - 1 ELSE 0))
NoLocation(d) == d.start_line = None /\ d.start_column = None /\ d.end_line = None

\* C14: get_diagnostic_range gives start (start_line - 1, start_column - 1)
\* and end (end_line - 1, end_column - 1), with start_line and start_column 1
\* when absent, end_line the start line when absent and one more exactly when
\* the diff has a line beginning with "-", and end_column the start column when
\* the end line is the start line and 1 otherwise; a finding without location
\* and without deletion gives (0,0)-(0,0).
C14_RangeOfFinding ==
    fn.op = "get_diagnostic_range" =>
        /\ fn.result = ClaimedRange(fn.diagnostic)
        /\ (NoLocation(fn.diagnostic) /\ ~Deletes(fn.diagnostic)) =>
              fn.result = Range(Position(0, 0), Position(0, 0))
\* an end line equal to the start line is moved by a deletion that follows a
\* "+" line ended by a bare carriage return
C14_Witness ==
    /\ fn.op = "get_diagnostic_range"
    /\ fn.diagnostic.diff = Some(DiffCR)
    /\ fn.diagnostic.start_line = Some(2)
    /\ fn.diagnostic.end_line = Some(2)
    /\ fn.diagnostic.start_column = Some(3)
    /\ fn.result = Range(Position(1, 2), Position(2, 0))

\* the place of a position of the grid in reading order
Key(p) == p.line * (MaxChar + 1) + p.character
Later(m, n) == IF m >= n THEN m ELSE n
Earlier(m, n) == IF m <= n THEN m ELSE n
ZeroWidth(r) == r.start = r.end
Contains(r, p) == Key(r.start) <= Key(p) /\ Key(p) <= Key(r.end)

\* C15: has_overlap(a, b) is true iff the later of the two starts is not after
\* the earlier of the two ends, in the order by line and then by character; it
\* gives the same answer with its arguments swapped, it is true of a range and
\* itself, and a zero-width selection overlaps exactly the ranges that contain
\* its point, the two boundaries included.
C15_OverlapRelation ==
    fn.op = "has_overlap" =>
        /\ fn.result = (Later(Key(fn.lhs.start), Key(fn.rhs.start))
                            <= Earlier(Key(fn.lhs.end), Key(fn.rhs.end)))
        /\ fn.result = has_overlap(fn.rhs, fn.lhs)
        /\ fn.lhs = fn.rhs => fn.result
        /\ ZeroWidth(fn.lhs) => (fn.result = Contains(fn.rhs, fn.lhs.start))
\* a cursor on the end boundary of a range that spans two lines
C15_Witness ==
    /\ fn.op = "has_overlap"
    /\ ZeroWidth(fn.lhs)
    /\ fn.lhs.start = fn.rhs.end
    /\ fn.rhs.start.line < fn.rhs.end.line
    /\ fn.rhs.start.character > fn.rhs.end.character
    /\ fn.result

\* character i of the text is the first of a line
OpensLine(text, i) ==
    \/ i = 1
    \/ text[i - 1] = "\n"
    \/ text[i - 1] = "\r" /\ text[i] # "\n"
\* the text read character by character: the first character of a line says
\* whether the rest of the line, terminator included, is kept
RECURSIVE Translated(_, _, _)
Translated(text, i, keep) ==
    IF i > Len(text) THEN <<>>
    ELSE IF OpensLine(text, i)
         THEN Translated(text, i + 1, text[i] \in {"+", " "})
         ELSE (IF keep THEN <<text[i]>> ELSE <<>>) \o Translated(text, i + 1, keep)
OnlyDeletions(text) ==
    text # <<>> /\ \A i \in DOMAIN text : OpensLine(text, i) => text[i] = "-"

\* C16: create_text_edit fails its assertion when the finding has no diff;
\* otherwise its new text is, in order and with the line terminators kept,
\* every line of the diff that starts with "+" or " " without its first
\* character, the other lines giving nothing, so that a diff of "-" lines
\* only gives the empty text.
C16_DiffTranslation ==
    fn.op = "create_text_edit" =>
        IF fn.diagnostic.diff = None
        THEN fn.raised = Some("AssertionError") /\ fn.result = None
        ELSE /\ fn.raised = None
             /\ fn.result # None
             /\ fn.result[1].new_text = Translated(fn.diagnostic.diff[1], 1, FALSE)
             /\ OnlyDeletions(fn.diagnostic.diff[1]) => fn.result[1].new_text = <<>>
\* a context line then an added line without terminator
C16_Witness ==
    /\ fn.op = "create_text_edit"
    /\ fn.diagnostic.diff = Some(DiffContext)
    /\ fn.raised = None
    /\ fn.result[1].new_text = <<"a", "\n", "b">>

\* C17: create_code_action returns None exactly when the finding has no diff;
\* otherwise one quick fix with the given title and the given related
\* diagnostics, whose one edit is bound to the given document uri and version,
\* has the range of the finding and the text translated from its diff.
C17_QuickFixOfFinding ==
    fn.op = "create_code_action" =>
        /\ fn.result = None <=> fn.diagnostic.diff = None
        /\ fn.result # None =>
              /\ fn.result[1].title = fn.title
              /\ fn.result[1].kind = "quickfix"
              /\ fn.result[1].diagnostics = fn.reference_diagnostics
              /\ fn.result[1].edit # None
              /\ fn.result[1].edit[1].uri = fn.document_uri
              /\ fn.result[1].edit[1].version = fn.document_version
              /\ fn.result[1].edit[1].range = ClaimedRange(fn.diagnostic)
              /\ fn.result[1].edit[1].new_text = Translated(fn.diagnostic.diff[1], 1, FALSE)
\* a replacing fix for a versioned document, with two related diagnostics
C17_Witness ==
    /\ fn.op = "create_code_action"
    /\ fn.diagnostic.diff = Some(DiffReplace)
    /\ fn.document_version = Some(1)
    /\ fn.reference_diagnostics = <<1, 2>>
    /\ fn.result # None
    /\ fn.result[1].edit[1].version = Some(1)
    /\ fn.result[1].edit[1].new_text = <<"b", "\n">>

\* C18: the diagnostic built by create_diagnostic has severity Warning, and
\* the code and the source it was given.
C18_SeverityWarning ==
    fn.op = "create_diagnostic" =>
        /\ fn.result.severity = "Warning"
        /\ fn.result.code = fn.code
        /\ fn.result.source = fn.source

\* ------------------------------------------------- claims on logger.py
Attached(h) == DictHas(h, "_server") /\ DictGet(h, "_server") # None
ClaimedType(levelno) ==
    CASE levelno = 10 -> "Log"
      [] levelno = 20 -> "Info"
      [] levelno = 30 -> "Warning"
      [] levelno \in {40, 50} -> "Error"
      [] OTHER -> "Info"
RECURSIVE Forwarded(_)
Forwarded(rs) ==
    IF rs = <<>> THEN <<>>
    ELSE (IF Attached(Head(rs).handler)
          THEN <<[message |-> PyStr(Head(rs).msg), type |-> ClaimedType(Head(rs).levelno)]>>
          ELSE <<>>) \o Forwarded(Tail(rs))
ForwardedInOrder == received = Forwarded(records)
EmitNeverRaises == \A k \in DOMAIN records : records[k].raised = None

\* C19: a record emitted before a server was attached, or after the server
\* was set to None, sends nothing and raises nothing; each record emitted while
\* a server is attached gives one show_message_log call, in order, of type Log
\* for DEBUG, Info for INFO, Warning for WARNING, Error for ERROR and CRITICAL,
\* and Info for any other level.
C19_ForwardsWhileAttached == ForwardedInOrder /\ EmitNeverRaises

\* ------------------------------------- claims on the edit's last line
\* range r is not entirely before the edit, and starts on the line on which
\* the edit ends, at or before the character at which it ends
StartOverwritten(e, r) ==
    /\ ~PosLT(r.end, e.start)
    /\ r.start.line = e.end.line
    /\ r.start.character <= e.end.character

\* C20: an edit drops every cached action that owns a range starting on the
\* line on which the edit ends (the range's start line as it was before the
\* edit) at or before the character at which the edit ends, unless the range
\* lies entirely before the edit, whatever number of lines the edit adds or
\* removes.
C20_StartOnLastLineInvalidates ==
    call.op = "applyEdit" =>
        \A a \in Actions(pre, call.target) :
            (\E r \in OwnedRanges(a) : StartOverwritten(call.range, r)) =>
                a.id \notin Ids(iter_code_actions(Snapshot, call.target))

\* --------------------------------- claims on ranges after the edit's end
\* the line terminators of a text: "\n", or "\r" not followed by "\n"
EndsLine(text, i) ==
    \/ text[i] = "\n"
    \/ text[i] = "\r" /\ (i = Len(text) \/ text[i + 1] # "\n")
Terminators(text) == {i \in DOMAIN text : EndsLine(text, i)}
\* lines added minus lines removed
NetLineDelta(e, text) == Cardinality(Terminators(text)) - (e.end.line - e.start.line)
\* length of the text after its last line terminator
LastLineCharCount(text) ==
    Cardinality({i \in DOMAIN text : \A k \in Terminators(text) : k < i})
MovedLines(r, n) ==
    [start |-> [line |-> r.start.line + n, character |-> r.start.character],
     end   |-> [line |-> r.end.line + n, character |-> r.end.character]]
\* the action of the snapshot with the identity of action a
Same(s, t, a) == CHOOSE b \in Actions(s, t) : b.id = a.id
Kept(s, t, a) == a.id \in Ids(iter_code_actions(s, t))
StartsBelow(e, r) == r.start.line > e.end.line

\* C21: an action whose ranges all start on a line after the line on which
\* the edit ends stays cached, and each of its ranges has both lines moved by
\* the edit's net line delta and both characters unchanged, whatever the edit,
\* edits that remove more lines than they add included.
C21_BelowEditShiftsLines ==
    call.op = "applyEdit" =>
        \A a \in Actions(pre, call.target) :
            (\A r \in OwnedRanges(a) : StartsBelow(call.range, r)) =>
                /\ Kept(Snapshot, call.target, a)
                /\ Same(Snapshot, call.target, a).edit[1].range =
                      MovedLines(a.edit[1].range, NetLineDelta(call.range, call.text))
                /\ \A j \in DOMAIN a.diagnostics :
                      Same(Snapshot, call.target, a).diagnostics[j].range =
                         MovedLines(a.diagnostics[j].range,
                                    NetLineDelta(call.range, call.text))

\* range r starts on the line on which the edit ends, after its last character
StartsAfterEditEnd(e, r) ==
    r.start.line = e.end.line /\ r.start.character > e.end.character
MovedAfterEditEnd(r, e, text) ==
    [start |-> [line |-> r.start.line + NetLineDelta(e, text),
                character |-> r.start.character + LastLineCharCount(text)],
     end   |-> [line |-> r.end.line + NetLineDelta(e, text),
                character |-> r.end.character]]

\* C22: an action whose ranges all start on the line on which the edit ends
\* (their start line as it was before the edit), after the character at which
\* it ends, stays cached; each of its ranges has its lines moved by the net
\* line delta and its start character increased by the length of the last
\* logical line of the replacement text, whatever the text, texts with line
\* terminators included.
C22_AfterEditEndShiftsStart ==
    call.op = "applyEdit" =>
        \A a \in Actions(pre, call.target) :
            (\A r \in OwnedRanges(a) : StartsAfterEditEnd(call.range, r)) =>
                /\ Kept(Snapshot, call.target, a)
                /\ Same(Snapshot, call.target, a).edit[1].range =
                      MovedAfterEditEnd(a.edit[1].range, call.range, call.text)
                /\ \A j \in DOMAIN a.diagnostics :
                      Same(Snapshot, call.target, a).diagnostics[j].range =
                         MovedAfterEditEnd(a.diagnostics[j].range, call.range, call.text)

\* ------------------------------------ claims on the diagnostics lists
\* the edit puts its text at one point, adds lines, and ends on a line
\* before the line on which range r starts
InsertsLinesAbove(e, text, r) ==
    /\ e.start = e.end
    /\ NetLineDelta(e, text) > 0
    /\ e.end.line < r.start.line

\* C23: an edit remaps the range of every cached diagnostic, those without
\* a code action included: after an edit that inserts k lines above a cached
\* diagnostic, the range get_diagnostics returns for it has its start line and
\* its end line increased by k.
C23_EveryDiagnosticRemapped ==
    call.op = "applyEdit" =>
        /\ Len(get_diagnostics(Snapshot, call.target)) =
              Len(get_diagnostics(pre, call.target))
        /\ \A i \in DOMAIN get_diagnostics(pre, call.target) :
              InsertsLinesAbove(call.range, call.text,
                                get_diagnostics(pre, call.target)[i].range) =>
                 get_diagnostics(Snapshot, call.target)[i].range =
                    MovedLines(get_diagnostics(pre, call.target)[i].range,
                               NetLineDelta(call.range, call.text))

\* ------------------------------------------ claims on dropped actions
\* the remap rule for one range: kept unchanged when it ends before the edit
\* starts; when it starts on or after the line on which the edit ends, lost if
\* it starts on that line at or before the edit's last character, otherwise
\* kept with its lines moved, and its start character moved if it starts on
\* that line; lost in every other case
Invalidated(e, r) ==
    /\ ~PosLT(r.end, e.start)
    /\ \/ r.start.line < e.end.line
       \/ r.start.line = e.end.line /\ r.start.character <= e.end.character
Remapped(e, text, r) ==
    IF PosLT(r.end, e.start) THEN r
    ELSE IF r.start.line = e.end.line
         THEN MovedAfterEditEnd(r, e, text)
         ELSE MovedLines(r, NetLineDelta(e, text))
Survives(e, a) == \A r \in OwnedRanges(a) : ~Invalidated(e, r)
Survivors(e, actions) == SelectSeq(actions, LAMBDA a : Survives(e, a))

\* C24: an edit removes an action exactly when it invalidates one of the
\* ranges the action owns (its edit's range, or the range of one of its
\* related diagnostics); the other actions stay in their partition, in the
\* order they had, with every range remapped.
C24_DroppedIffInvalidated ==
    call.op = "applyEdit" =>
        \A c \in Commands :
            LET before == Survivors(call.range, ActionList(pre, call.target, c))
                after  == ActionList(Snapshot, call.target, c)
            IN  /\ Len(after) = Len(before)
                /\ \A k \in DOMAIN after :
                      /\ k \in DOMAIN before
                      /\ after[k].id = before[k].id
                      /\ after[k].edit[1].range =
                            Remapped(call.range, call.text, before[k].edit[1].range)
                      /\ \A j \in DOMAIN after[k].diagnostics :
                            after[k].diagnostics[j].range =
                               Remapped(call.range, call.text,
                                        before[k].diagnostics[j].range)

\* --------------------------------------- claims on files of other kinds
PythonFile(path) == Suffix(path) \in {".py", ".pyc"}
\* thread th, holding the lock in create_file_runtime, finds no runtime for
\* the path and takes its next step
Unregistered(th) ==
    /\ At(th, "locked", "create_file_runtime")
    /\ Steps(th)
    /\ _lookup_file_runtime(PathOf(wt[th].uri)) = None
PassiveSkipsOtherFiles ==
    \A th \in WsThreads :
        (Unregistered(th) /\ ~wt[th].force /\ ~PythonFile(PathOf(wt[th].uri))) =>
            ReturnsNoneStoringNothing(th) /\ UNCHANGED notified
ForcedResolvesProject ==
    \A th \in WsThreads :
        (Unregistered(th) /\ wt[th].force) => wt'[th].pc = "constructing"
StoredOnSuccess ==
    \A th \in WsThreads :
        (At(th, "constructed", "create_file_runtime") /\ Steps(th)) =>
            /\ DictHas(file_runtimes', PathOf(wt[th].uri))
            /\ wt'[th].result = Some(DictGet(file_runtimes', PathOf(wt[th].uri)))

\* C27: a file whose suffix is neither .py nor .pyc gets no runtime from
\* create_file_runtime without force (file-open), but with force (a document
\* command) the project is looked for and, when it loads, a FileRuntime is
\* made, stored and returned.
C27_ForcedHandlesOtherFiles ==
    [][PassiveSkipsOtherFiles /\ ForcedResolvesProject /\ StoredOnSuccess]_vars


\* ---- C25
Analysing(th) == rr[th].pc = "analysed"
InsideRegistry(th) == wt[th].pc \notin {"idle", "waiting", "returned"}
\* the registry lock is held only between the entry and the exit of a lookup
\* or creation
RegistryLockOnlyInside == \A th \in WsThreads : ws_lock = th => InsideRegistry(th)
\* the handler whose rerun is in the analysis holds neither lock
AnalysisHoldsNoLock ==
    \A i \in Handlers :
        Analysing(RerunThread(i)) =>
            /\ ws_lock # RegistryThread(i)
            /\ \A t \in Targets : lock[t] # RerunThread(i)
\* the other handler finds free what it asks for
OthersNeedNotWait ==
    \A i \in Handlers : \A j \in Handlers \ {i} :
        Analysing(RerunThread(i)) =>
            /\ wt[RegistryThread(j)].pc = "waiting" => ws_lock = NoThread
            /\ (/\ rr[RerunThread(j)].pc = "converted"
                /\ rr[RerunThread(j)].target # rr[RerunThread(i)].target)
               => lock[rr[RerunThread(j)].target] = NoThread
\* C25: the registry lock is held only during a lookup or creation and never
\* during the analysis, no runtime's lock is held during the analysis, and
\* while one handler's rerun is in the analysis the other handler's registry
\* call or rerun of another target finds its lock free
C25_AnalysisOutsideLocks ==
    RegistryLockOnlyInside /\ AnalysisHoldsNoLock /\ OthersNeedNotWait
\* one rerun is in the analysis while the other handler is inside the registry
C25_Witness ==
    \E i \in Handlers : \E j \in Handlers \ {i} :
        /\ Analysing(RerunThread(i))
        /\ ws_lock = RegistryThread(j)
        /\ InsideRegistry(RegistryThread(j))


\* ---- C26
\* a thread outside a `with` block holds no lock
LocksReleasedOnExit ==
    /\ \A th \in WsThreads : wt[th].pc \in {"idle", "waiting", "returned"} => ws_lock # th
    /\ \A th \in RerunThreads :
           rr[th].pc \in {"idle", "analysed", "converted"} =>
               \A t \in Targets : lock[t] # th
\* no handler holds the registry lock and a runtime's lock together
NeverBothLocks ==
    \A i \in Handlers :
        ~(ws_lock = RegistryThread(i) /\ \E t \in Targets : lock[t] = RerunThread(i))
RegistryCallCompletes(th) == (wt[th].pc = "waiting") ~> (wt[th].pc = "returned")
RerunCompletes(th) == (rr[th].pc # "idle") ~> (rr[th].pc = "idle")
EditCompletes == (ed.pc # "idle") ~> (ed.pc = "idle")
\* C26: with a fair scheduler every started registry call, rerun and edit
\* comes to its end, by a return or by an exception; the registry lock and a
\* runtime's lock are never held together, and a thread that has left its
\* `with` block, by whatever exit, no longer holds the lock
C26_EveryOperationCompletes ==
    /\ [](LocksReleasedOnExit /\ NeverBothLocks)
    /\ \A th \in WsThreads : RegistryCallCompletes(th)
    /\ \A th \in RerunThreads : RerunCompletes(th)
    /\ EditCompletes
\* a registry call waits for the lock while the other thread leaves the
\* registry by an exception
C26_Witness ==
    \E th \in WsThreads : \E other \in WsThreads \ {th} :
        /\ wt[th].pc = "waiting"
        /\ wt[other].pc = "unlocking"
        /\ wt[other].raised # None
        /\ ws_lock = other


\* ---- C28
\* C28: once the reruns and the edit pass on a target have all completed,
\* the list of code actions of a command comes from the rerun that replaced
\* the command's partition last; an edit pass that was in progress at the
\* replacement has not written the earlier run's filtered list back
C28_RerunNotLostToEdit ==
    (Quiescent /\ ed.pc = "idle") =>
        \A t \in Targets, c \in Commands :
            replaced[t][c] # <<>> =>
                /\ HasCodeActions(Snapshot, t, c)
                /\ DictGet(code_actions[t], c).run = Last(replaced[t][c])


\* ---- C29
\* the query with the empty selection at position p returns action a
FoundAt(t, a, p) == \E k \in DOMAIN query_code_actions(Snapshot, t, Cursor(p)) :
                        query_code_actions(Snapshot, t, Cursor(p))[k] = a
\* C29: every cached code action is returned by the query whose selection is
\* the empty range at the start of the action's related diagnostic
C29_CachedActionDiscoverable ==
    \A t \in Targets : \A a \in Actions(Snapshot, t) :
        /\ a.diagnostics # <<>>
        /\ \A j \in DOMAIN a.diagnostics : FoundAt(t, a, a.diagnostics[j].range.start)


\* ---- C30
\* C30: in every cached code action the range of the replacement edit is the
\* range of each related diagnostic, after the rerun that built the action
\* and after every edit that kept it
C30_EditRangeIsDiagnosticRange ==
    \A t \in Targets : \A a \in Actions(Snapshot, t) :
        /\ a.diagnostics # <<>>
        /\ \A j \in DOMAIN a.diagnostics : a.edit[1].range = a.diagnostics[j].range
\* an edit kept a cached action and moved its ranges
C30_Witness ==
    /\ call.op = "applyEdit"
    /\ \E a \in Actions(pre, call.target) :
          /\ Kept(Snapshot, call.target, a)
          /\ Same(Snapshot, call.target, a).edit[1].range # a.edit[1].range
          /\ Same(Snapshot, call.target, a).diagnostics[1].range # a.diagnostics[1].range


\* ---- C31
NonNegative(r) ==
    /\ r.start.line >= 0 /\ r.start.character >= 0
    /\ r.end.line >= 0 /\ r.end.character >= 0
\* the ranges a reader of target t can get: of the cached diagnostics, those
\* whose code action was dropped included, and of the cached code actions
CachedRanges(s, t) ==
    {get_diagnostics(s, t)[i].range : i \in DOMAIN get_diagnostics(s, t)}
        \cup UNION {OwnedRanges(a) : a \in Actions(s, t)}
\* C31: after any sequence of edits (start not after end, coordinates not
\* negative) no line and no character of a cached range is negative, edits
\* that remove more lines than they add included, and ranges of diagnostics
\* whose code action was dropped included
C31_CachedRangesNonNegative ==
    \A t \in Targets : \A r \in CachedRanges(Snapshot, t) : NonNegative(r)
\* an edit that removes more lines than it adds moved a kept action up and
\* dropped another action, whose diagnostic stays cached
C31_Witness ==
    /\ call.op = "applyEdit"
    /\ num_updated_lines(call.range, call.text) < 0
    /\ \E a \in Actions(pre, call.target) :
          /\ Kept(Snapshot, call.target, a)
          /\ Same(Snapshot, call.target, a).edit[1].range.start.line
                 < a.edit[1].range.start.line
    /\ \E b \in Actions(pre, call.target) :
          /\ ~Kept(Snapshot, call.target, b)
          /\ \E i \in DOMAIN get_diagnostics(Snapshot, call.target) :
                get_diagnostics(Snapshot, call.target)[i].range \in RelatedRanges(b)


\* ---- C32
\* the changes of a notification that carry a range, in the order given
Ranged(changes) == SelectSeq(changes, LAMBDA change : change.range # None)
\* one edit applied to the cache c = [objs, dict] of a File Target
EditOn(c, e) == RemapItems(c.objs, c.dict, 1, e.range[1], e.text)
\* the cache after the first k of the edits, each applied to what the one
\* before it left
RECURSIVE AfterFirst(_, _, _)
AfterFirst(c, edits, k) ==
    IF k = 0 THEN c ELSE EditOn(AfterFirst(c, edits, k - 1), edits[k])
AfterAll(c, edits) == AfterFirst(c, edits, Len(edits))
\* the step handles a document-change notification
DidChangeStep == Len(hist') = Len(hist) + 1 /\ hist'[Len(hist')].op = "didChange"
DidChangeEffect ==
    LET n      == hist'[Len(hist')]
        path   == PathOf(n.uri)
        t      == TargetOf(path)
        after  == AfterAll([objs |-> objs, dict |-> code_actions[t]], Ranged(n.changes))
    IN  /\ file_runtimes' = file_runtimes
        /\ runtimes' = runtimes
        /\ workspace_runtime' = workspace_runtime
        /\ diagnostics' = diagnostics
        /\ version' = version
        /\ IF DictHas(file_runtimes, path)
           THEN /\ objs' = after.objs
                /\ code_actions' = [code_actions EXCEPT ![t] = after.dict]
           ELSE objs' = objs /\ code_actions' = code_actions
        /\ Ranged(n.changes) = <<>> => (objs' = objs /\ code_actions' = code_actions)
\* C32: a document-change notification applies its content changes to the
\* cache of the document's File Target one at a time in the order given; a
\* change without a range is skipped and changes nothing cached; for a
\* document without a File Target nothing cached changes; and no File Target
\* is created
C32_ChangesAppliedInOrder == [][DidChangeStep => DidChangeEffect]_vars
\* a notification for a document with a File Target carried two changes with
\* a range, whose order matters, around one without a range
C32_Witness ==
    /\ call.op = "didChange"
    /\ DictHas(file_runtimes, PathOf(call.uri))
    /\ Len(call.changes) = 3
    /\ call.changes[1].range # None
    /\ call.changes[2].range = None
    /\ call.changes[3].range # None
    /\ LET t == TargetOf(PathOf(call.uri))
           c == [objs |-> pre.objs, dict |-> pre.code_actions[t]]
       IN  /\ AfterAll(c, <<call.changes[1], call.changes[3]>>)
                # AfterAll(c, <<call.changes[3], call.changes[1]>>)
           /\ objs # pre.objs

=============================================================================
